---- MODULE Spec2Model ----
(***************************************************************************)
(* PictureFrame: the image ingestion and ordering engine.                  *)
(*                                                                         *)
(*   - ImageProcessor.process_image   (content store, src/image_processor) *)
(*   - PlaylistManager                (three persisted order indices)      *)
(*   - Slideshow                      (cursor over one index)              *)
(*   - WebInterface upload queue      (debounce timer + batch loop)        *)
(*                                                                         *)
(* Eleven specifications share the variables:                              *)
(*   Spec   the store and the indices under ingestion, deletion and index  *)
(*          file faults, one operation per step                            *)
(*   SpecC  the cursor over its index under ingestion and deletion         *)
(*   SpecQ  the upload queue: producer threads, debounce timers and the    *)
(*          timer callbacks, interleaved at the granularity of their       *)
(*          shared-memory accesses                                         *)
(*   SpecF  the store under all ingestion paths: the upload batch,         *)
(*          check_emails and fix_missing_proxies                           *)
(*   SpecW  one batch run step by step, interleaved with delete_image and  *)
(*          get_images requests                                            *)
(*   SpecU  upload requests that are accepted, rejected or fail in save    *)
(*   SpecL  batches whose jobs carry different uploader names              *)
(*   SpecI  add_image, remove_image and rebuild_playlist calls that        *)
(*          overlap, one file read or write per step                       *)
(*   SpecS  Slideshow calls of the GUI thread and of the watchdog observer *)
(*          thread that overlap                                            *)
(*   SpecM  batch runs whose load of metadata.json may fail                *)
(*   SpecD  get_playlist on a disk that may refuse writes                  *)
(***************************************************************************)
EXTENDS Integers, Sequences, FiniteSets, TLC

\* ------------------------------------------------------------- bounds
NumHashes == 3          \* distinct image contents (md5 digests)
MaxWrites == 3          \* artifact files written in one behaviour
MaxBatchInput == 2      \* jobs per batch in Spec (SpecQ takes the code's batch size)
NumProducers == 2       \* concurrent upload_image requests
MaxSubmits == 6         \* uploads accepted in one behaviour
MaxTimers == 3           \* threading.Timer objects alive at once
DelayTicks == 2         \* clock ticks that make up _processing_delay (15.0 s)
MaxBatchRuns == 2       \* batch runs in one behaviour of SpecW
MaxCalls == 2           \* calls of the PlaylistManager each caller begins (SpecI)
RecursionLimit == 3     \* nested get_playlist calls before RecursionError (SpecD)

\* WebInterface.__init__: self._processing_batch_size
processing_batch_size == 5

Hashes == 1..NumHashes
Labels == {"a"}
Policies == {"transfer_time", "creation_time", "random"}
None == 0               \* Python None; also "no file" as an mtime

\* The bytes decide whether PIL can decode them: Image.open raises for the
\* last digest, every other one decodes.
Corrupt(h) == h = NumHashes

\* ExifExtractor.extract_all_exif(...)['date'] as a timestamp, None when the
\* image carries no capture date.  Only digest 1 carries one.
ExifDate(h) == IF h = 1 THEN 1 ELSE None

\* An index file on disk: absent, present but not loadable, or a JSON list.
Missing == [kind |-> "missing", entries |-> <<>>]
Unreadable == [kind |-> "unreadable", entries |-> <<>>]
ListFile(list) == [kind |-> "list", entries |-> list]
IsList(f) == f.kind = "list"

NoRecord == [sender |-> "", exif_date |-> None, present |-> FALSE]

\* _images_cache is None.  Otherwise: the cached listing, and whether less
\* than 5 seconds have passed since _images_cache_time.
NoCache == [set |-> FALSE, fresh |-> FALSE, images |-> <<>>]

\* The threads that call into PlaylistManager: the batch run (or the email
\* check) inserting, a delete_image request removing, the GUI rebuilding.
\* The threads that call into the Slideshow: the GUI, and the watchdog
\* observer running ImageFileHandler.on_deleted.
SlideThreads == {"ui", "watcher"}
IdleSlide == [pc |-> "idle", op |-> "", new |-> <<>>]

Callers == {"insert", "remove", "rebuild"}
IdleCall == [pc |-> "idle", hash |-> None, todo |-> <<>>, file |-> Missing, order |-> <<>>,
             wrote |-> FALSE, calls |-> 0]

VARIABLES
    proxy,          \* proxy_dir/<hash>.jpg: hash -> mtime, None when absent
    fs_time,        \* the file system's clock: the mtime of the last write
    encoded,        \* hash -> decode/encode runs since its artifact was last absent
    metadata,       \* metadata.json: hash -> record
    playlists,      \* playlists/playlist_<sort_by>.json: policy -> file
    images,         \* Slideshow.images (as hashes)
    current_index,  \* Slideshow.current_index
    sort_by,        \* Slideshow.sort_by
    loop,           \* Slideshow.loop
    ret,            \* the last operation and what it returned
    upload_queue,       \* WebInterface._upload_queue
    processing_timer,   \* WebInterface._processing_timer: a timer id, or None
    is_processing,      \* WebInterface._is_processing
    upload_in_progress, \* WebInterface._upload_in_progress
    in_progress_lock,   \* holder of _upload_in_progress_lock, None when free
    timers,             \* id -> [state, remaining]: every threading.Timer made
    cb,                 \* id -> [pc, batch, queue_remaining]: the timer's callback
    prod,               \* producer -> where its upload_image request stands
    appended,           \* jobs appended so far
    since_submit,       \* ticks since the last append, capped at DelayTicks
    batch_runs,         \* batches taken so far
    late_submit,        \* a job was appended after the first batch was taken
    images_cache,       \* WebInterface._images_cache and _images_cache_time
    listing,            \* a get_images request between its glob and its cache store
    worker,             \* a batch run step by step: [pc, batch, metadata]
    reload_signals,     \* 'reload_settings' messages put since a job was last processed
    pm,                 \* caller -> a PlaylistManager call between its reads and writes
    slide               \* thread -> a Slideshow call between its reads and writes

storeVars == <<proxy, fs_time, encoded, metadata, playlists>>
cursorVars == <<images, current_index, sort_by, loop>>
queueVars == <<upload_queue, processing_timer, is_processing, upload_in_progress,
               in_progress_lock, timers, cb, prod, appended, since_submit,
               batch_runs, late_submit>>
webVars == <<images_cache, listing, worker, reload_signals, pm, slide>>
vars == <<proxy, fs_time, encoded, metadata, playlists,
          images, current_index, sort_by, loop, ret,
          upload_queue, processing_timer, is_processing, upload_in_progress,
          in_progress_lock, timers, cb, prod, appended, since_submit,
          batch_runs, late_submit,
          images_cache, listing, worker, reload_signals, pm, slide>>

\* ------------------------------------------------------------- helpers
Range(s) == {s[i] : i \in 1..Len(s)}
HashesOf(list) == {list[i].hash : i \in 1..Len(list)}
Count(h, list) == Cardinality({i \in 1..Len(list) : list[i].hash = h})
Exists(px, h) == px[h] # None
Artifacts(px) == {h \in Hashes : Exists(px, h)}

\* All orders in which a directory listing (glob) or random.shuffle can
\* deliver the elements of S.
Orderings(S) ==
    {s \in [1..Cardinality(S) -> S] : \A i, j \in 1..Cardinality(S) : s[i] = s[j] => i = j}

RECURSIVE SelectSeqBy(_, _, _)
SelectSeqBy(s, px, keep) ==
    IF s = <<>> THEN <<>>
    ELSE (IF keep = Exists(px, Head(s)) THEN <<Head(s)>> ELSE <<>>)
         \o SelectSeqBy(Tail(s), px, keep)

\* list.sort(key=lambda x: x['sort_key'], reverse=True): stable, descending.
InsertDesc(sorted, e) ==
    LET k == Cardinality({i \in 1..Len(sorted) : sorted[i].sort_key >= e.sort_key})
    IN  SubSeq(sorted, 1, k) \o <<e>> \o SubSeq(sorted, k + 1, Len(sorted))

RECURSIVE SortDescFrom(_, _)
SortDescFrom(done, rest) ==
    IF rest = <<>> THEN done
    ELSE SortDescFrom(InsertDesc(done, Head(rest)), Tail(rest))

SortDesc(list) == SortDescFrom(<<>>, list)

\* ------------------------------------------------------------- ImageProcessor
\* process_image took the decode/encode path for h (lines 41-55): the proxy
\* is written now, so its mtime is the next tick of the file system clock.
Encode(st, h) ==
    [st EXCEPT !.proxy[h] = st.fs_time + 1,
               !.fs_time = st.fs_time + 1,
               !.encoded[h] = st.encoded[h] + 1]

\* Mutant: the `if proxy_path.exists()` shortcut is gone.
process_image_no_dedup(st, h) ==
    IF Corrupt(h) THEN [ok |-> FALSE, st |-> st]
    ELSE [ok |-> TRUE, st |-> Encode(st, h)]

\* process_image: [ok, st].  An existing proxy is returned untouched; an
\* undecodable source raises (ok = FALSE) and writes nothing.
process_image(st, h) ==
    IF Exists(st.proxy, h) THEN [ok |-> TRUE, st |-> st]
    ELSE IF Corrupt(h) THEN [ok |-> FALSE, st |-> st]
    ELSE [ok |-> TRUE, st |-> Encode(st, h)]

\* ------------------------------------------------------------- PlaylistManager
get_sort_key(h, p, px, md) ==
    IF p = "transfer_time" THEN px[h]
    ELSE IF p = "creation_time"
         THEN IF md[h].present /\ md[h].exif_date # None
              THEN md[h].exif_date
              ELSE px[h]
    ELSE h

\* json.load of an index file inside try/except: an absent or unloadable
\* file leaves the empty list.
LoadOrEmpty(file) == IF IsList(file) THEN file.entries ELSE <<>>

\* Mutant: the random policy is sorted like the other two.
add_to_playlist_sorting_random(h, p, file, px, md) ==
    LET playlist == LoadOrEmpty(file)
        entry == [hash |-> h, sort_key |-> get_sort_key(h, p, px, md)]
    IN  IF h \in HashesOf(playlist) THEN file
        ELSE ListFile(SortDesc(Append(playlist, entry)))

\* Mutant: no look for the hash before the append.
add_to_playlist_appending(h, p, file, px, md) ==
    LET playlist == LoadOrEmpty(file)
        entry == [hash |-> h, sort_key |-> get_sort_key(h, p, px, md)]
    IN  IF p = "random" THEN ListFile(Append(playlist, entry))
        ELSE ListFile(SortDesc(Append(playlist, entry)))

add_to_playlist(h, p, file, px, md) ==
    LET playlist == LoadOrEmpty(file)
        entry == [hash |-> h, sort_key |-> get_sort_key(h, p, px, md)]
    IN  IF h \in HashesOf(playlist) THEN file
        ELSE IF p = "random" THEN ListFile(Append(playlist, entry))
        ELSE ListFile(SortDesc(Append(playlist, entry)))

add_image(h, pls, px, md) ==
    [p \in Policies |-> add_to_playlist(h, p, pls[p], px, md)]

RECURSIVE Without(_, _)
Without(list, h) ==
    IF list = <<>> THEN <<>>
    ELSE (IF Head(list).hash = h THEN <<>> ELSE <<Head(list)>>) \o Without(Tail(list), h)

\* Mutant: a file that is absent or does not load is replaced by an empty list.
remove_image_creating(h, pls) ==
    [p \in Policies |-> ListFile(Without(LoadOrEmpty(pls[p]), h))]

\* delete_image, lines 420-432: the record is deleted and metadata.json
\* rewritten only if the hash is a key of the table.
remove_metadata(h, md) == IF md[h].present THEN [md EXCEPT ![h] = NoRecord] ELSE md

\* remove_image: a file that is absent is skipped, one that does not load
\* raises inside the try and is left as it is.
remove_image(h, pls) ==
    [p \in Policies |-> IF IsList(pls[p]) THEN ListFile(Without(pls[p].entries, h)) ELSE pls[p]]

\* rebuild_playlist.  order: the order in which glob("*.jpg") lists the
\* proxies and, for the random policy, the order random.shuffle leaves.
\* Mutant: the keys are computed but the list is left in glob order.
rebuild_playlist_unsorted(p, order, px, md) ==
    ListFile([i \in 1..Len(order) |->
                 [hash |-> order[i], sort_key |-> get_sort_key(order[i], p, px, md)]])

rebuild_playlist(p, order, px, md) ==
    LET playlist == [i \in 1..Len(order) |->
                        [hash |-> order[i], sort_key |-> get_sort_key(order[i], p, px, md)]]
    IN  IF p = "random" THEN ListFile(playlist) ELSE ListFile(SortDesc(playlist))

\* Mutant: the except branch gives up with an empty list instead of rebuilding.
get_playlist_no_heal(p, order, file, px, md) ==
    LET first == IF file = Missing THEN rebuild_playlist(p, order, px, md) ELSE file
    IN  [file |-> first,
         hashes |-> [i \in 1..Len(first.entries) |-> first.entries[i].hash]]

\* get_playlist: [file, hashes].  A missing file is rebuilt first; a file
\* that does not load is rebuilt in the except branch and loaded again.
get_playlist(p, order, file, px, md) ==
    LET first == IF file = Missing THEN rebuild_playlist(p, order, px, md) ELSE file
        final == IF IsList(first) THEN first ELSE rebuild_playlist(p, order, px, md)
    IN  [file |-> final,
         hashes |-> [i \in 1..Len(final.entries) |-> final.entries[i].hash]]


\* get_playlist with a disk that may refuse writes: [file, hashes, raised].
\* rebuild_playlist swallows a failed write (lines 163-169) and leaves the
\* file as it was; get_playlist then fails to load it again and calls itself
\* from its except branch (lines 184-188), until the interpreter raises
\* RecursionError, which no frame on the way out catches.
RECURSIVE get_playlist_writing(_, _, _, _, _, _, _)
get_playlist_writing(p, order, file, px, md, writable, depth) ==
    IF depth > RecursionLimit
    THEN [file |-> file, hashes |-> <<>>, raised |-> TRUE]
    ELSE LET first == IF file = Missing /\ writable
                      THEN rebuild_playlist(p, order, px, md) ELSE file
         IN  IF IsList(first)
             THEN [file |-> first,
                   hashes |-> [i \in 1..Len(first.entries) |-> first.entries[i].hash],
                   raised |-> FALSE]
             ELSE get_playlist_writing(p, order,
                                       IF writable THEN rebuild_playlist(p, order, px, md)
                                       ELSE first,
                                       px, md, writable, depth + 1)

\* ------------------------------------------------------------- batch body
\* The part of _process_upload_queue between `try:` and the cache
\* invalidation, on the state st = [proxy, fs_time, encoded, metadata,
\* playlists] and a batch of jobs [hash, uploader_name].

\* Mutant: a record that exists is kept (dict.setdefault instead of assignment).
MaterializeJob_keeping(st, job) ==
    LET r == process_image(st, job.hash)
    IN  IF r.ok /\ ~r.st.metadata[job.hash].present
        THEN [r.st EXCEPT !.metadata[job.hash] =
                  [sender |-> job.uploader_name,
                   exif_date |-> ExifDate(job.hash),
                   present |-> TRUE]]
        ELSE r.st

\* lines 116-147: one job.  process_image raising skips the metadata update.
MaterializeJob(st, job) ==
    LET r == process_image(st, job.hash)
    IN  IF r.ok
        THEN [r.st EXCEPT !.metadata[job.hash] =
                  [sender |-> job.uploader_name,
                   exif_date |-> ExifDate(job.hash),
                   present |-> TRUE]]
        ELSE r.st

\* Mutant: without the try/except around one job, the first job that raises
\* ends the loop.
RECURSIVE MaterializeAll_abort(_, _)
MaterializeAll_abort(st, batch) ==
    IF batch = <<>> THEN st
    ELSE IF ~process_image(st, Head(batch).hash).ok THEN st
    ELSE MaterializeAll_abort(MaterializeJob(st, Head(batch)), Tail(batch))

RECURSIVE MaterializeAll(_, _)
MaterializeAll(st, batch) ==
    IF batch = <<>> THEN st
    ELSE MaterializeAll(MaterializeJob(st, Head(batch)), Tail(batch))

\* lines 159-171: add_image for every job of the batch, whatever became of
\* its materialization; the hash is recomputed from the original file.
RECURSIVE InsertAll(_, _, _, _)
InsertAll(pls, batch, px, md) ==
    IF batch = <<>> THEN pls
    ELSE InsertAll(add_image(Head(batch).hash, pls, px, md), Tail(batch), px, md)

\* The number of times the batch run opens playlist_<p>.json for writing:
\* _add_to_playlist writes (lines 115-118) unless it returned at line 97.
RECURSIVE playlist_writes(_, _, _, _, _)
playlist_writes(p, file, hashes, px, md) ==
    IF hashes = <<>> THEN 0
    ELSE (IF Head(hashes) \in HashesOf(LoadOrEmpty(file)) THEN 0 ELSE 1)
         + playlist_writes(p, add_to_playlist(Head(hashes), p, file, px, md),
                           Tail(hashes), px, md)

process_batch(st, batch) ==
    LET st1 == MaterializeAll(st, batch)
    IN  [st1 EXCEPT !.playlists = InsertAll(st1.playlists, batch, st1.proxy, st1.metadata)]

\* Proxies the batch will write: its decodable hashes that have no artifact.
WritesOf(batch, px) ==
    Cardinality({h \in Hashes : /\ \E i \in 1..Len(batch) : batch[i].hash = h
                                /\ ~Exists(px, h)
                                /\ ~Corrupt(h)})

\* ------------------------------------------------------------- Slideshow
\* The operators work on c = [images, current_index, file] (file: the index
\* file of the bound policy) and return it with the path handed back.

\* lines 112-122 of _refresh_image_list.  The else branch re-checks the
\* current image and can only write the index it already has.
ClampAfterReload(imgs, idx, px) ==
    IF Len(imgs) = 0 THEN 0
    ELSE IF idx >= Len(imgs) THEN 0
    ELSE IF ~Exists(px, imgs[idx + 1]) THEN (IF idx < Len(imgs) - 1 THEN idx ELSE Len(imgs) - 1)
    ELSE idx

\* Mutant: the `if p.exists()` filter is gone.
refresh_image_list_unfiltered(c, p, order, px, md) ==
    LET r == get_playlist(p, order, c.file, px, md)
    IN  [images |-> r.hashes,
         current_index |-> IF Len(r.hashes) = 0 \/ c.current_index >= Len(r.hashes)
                           THEN 0 ELSE c.current_index,
         file |-> r.file]

refresh_image_list(c, p, order, px, md) ==
    LET r == get_playlist(p, order, c.file, px, md)
        imgs == SelectSeqBy(r.hashes, px, TRUE)
    IN  [images |-> imgs,
         current_index |-> ClampAfterReload(imgs, c.current_index, px),
         file |-> r.file]

\* Mutant: the index is not brought back into range.
refresh_no_clamp(c, p, order, px, md) ==
    LET r == get_playlist(p, order, c.file, px, md)
    IN  [images |-> SelectSeqBy(r.hashes, px, TRUE),
         current_index |-> c.current_index,
         file |-> r.file]

\* refresh(): lines 175-196.
refresh(c, p, order, px, md) ==
    LET r == get_playlist(p, order, c.file, px, md)
        imgs == SelectSeqBy(r.hashes, px, TRUE)
    IN  [images |-> imgs,
         current_index |-> IF Len(imgs) = 0 THEN 0
                           ELSE IF c.current_index >= Len(imgs) THEN 0
                           ELSE c.current_index,
         file |-> r.file]

\* get_current_image: [c, path, refreshed].
get_current_image(c, p, order, px, md) ==
    IF c.images = <<>> THEN [c |-> c, path |-> None, refreshed |-> FALSE]
    ELSE IF Exists(px, c.images[c.current_index + 1])
         THEN [c |-> c, path |-> c.images[c.current_index + 1], refreshed |-> FALSE]
    ELSE LET c1 == refresh_image_list(c, p, order, px, md)
         IN  [c |-> c1,
              path |-> IF c1.images # <<>> THEN c1.images[c1.current_index + 1] ELSE None,
              refreshed |-> TRUE]

\* Mutant: next_image stops at the last entry whatever `loop` says.
next_image_no_wrap(c, p, lp, order, px, md) ==
    IF c.images = <<>> THEN [c |-> c, path |-> None, refreshed |-> FALSE]
    ELSE LET i == c.current_index + 1
             j == IF i >= Len(c.images) THEN Len(c.images) - 1 ELSE i
         IN  get_current_image([c EXCEPT !.current_index = j], p, order, px, md)

next_image(c, p, lp, order, px, md) ==
    IF c.images = <<>> THEN [c |-> c, path |-> None, refreshed |-> FALSE]
    ELSE LET i == c.current_index + 1
             j == IF i >= Len(c.images) THEN (IF lp THEN 0 ELSE Len(c.images) - 1) ELSE i
         IN  get_current_image([c EXCEPT !.current_index = j], p, order, px, md)

previous_image(c, p, lp, order, px, md) ==
    IF c.images = <<>> THEN [c |-> c, path |-> None, refreshed |-> FALSE]
    ELSE LET i == c.current_index - 1
             j == IF i < 0 THEN (IF lp THEN Len(c.images) - 1 ELSE 0) ELSE i
         IN  get_current_image([c EXCEPT !.current_index = j], p, order, px, md)


\* ------------------------------------------------------------- Spec: state
Store == [proxy |-> proxy, fs_time |-> fs_time, encoded |-> encoded,
          metadata |-> metadata, playlists |-> playlists]

SetStore(st) ==
    /\ proxy' = st.proxy
    /\ fs_time' = st.fs_time
    /\ encoded' = st.encoded
    /\ metadata' = st.metadata
    /\ playlists' = st.playlists

Cursor == [images |-> images, current_index |-> current_index, file |-> playlists[sort_by]]

SetCursor(c) ==
    /\ images' = c.images
    /\ current_index' = c.current_index
    /\ playlists' = [playlists EXCEPT ![sort_by] = c.file]

NoRet == [op |-> "none", path |-> None, list |-> <<>>, refreshed |-> FALSE,
          policy |-> "", was |-> "", labels |-> <<>>, raised |-> FALSE]

HashList(batch) == [i \in 1..Len(batch) |-> batch[i].hash]

Jobs == [hash : Hashes, uploader_name : Labels]
BatchInputs == UNION {[1..n -> Jobs] : n \in 1..MaxBatchInput}

\* Slideshow.__init__ runs _refresh_image_list on the empty proxy directory:
\* get_playlist finds no index file for the bound policy and rebuilds it.
InitStore(p) ==
    /\ proxy = [h \in Hashes |-> None]
    /\ fs_time = 0
    /\ encoded = [h \in Hashes |-> 0]
    /\ metadata = [h \in Hashes |-> NoRecord]
    /\ playlists = [q \in Policies |-> IF q = p THEN ListFile(<<>>) ELSE Missing]

Timers == 1..MaxTimers
Producers == 1..NumProducers

InitQueue ==
    /\ upload_queue = <<>>
    /\ processing_timer = None
    /\ is_processing = FALSE
    /\ upload_in_progress = FALSE
    /\ in_progress_lock = None
    /\ timers = [t \in Timers |-> [state |-> "unused", remaining |-> 0]]
    /\ cb = [t \in Timers |-> [pc |-> "idle", batch |-> <<>>, queue_remaining |-> 0]]
    /\ prod = [u \in Producers |-> "idle"]
    /\ appended = 0
    /\ since_submit = DelayTicks
    /\ batch_runs = 0
    /\ late_submit = FALSE
    /\ images_cache = NoCache
    /\ listing = [pc |-> "idle", images |-> <<>>]
    /\ worker = [pc |-> "idle", batch |-> <<>>, metadata |-> [h \in Hashes |-> NoRecord]]
    /\ reload_signals = 0
    /\ pm = [c \in Callers |-> IdleCall]
    /\ slide = [th \in SlideThreads |-> IdleSlide]

InitCursor ==
    /\ sort_by \in Policies
    /\ images = <<>>
    /\ current_index = 0

\* Spec: the store and the indices.  sort_by is the policy the frame is
\* configured with, the only one get_playlist is ever called for.
Init ==
    /\ InitCursor
    /\ loop = TRUE
    /\ InitStore(sort_by)
    /\ InitQueue
    /\ ret = NoRet

\* SpecC: the cursor over its index.
InitC ==
    /\ InitCursor
    /\ loop \in BOOLEAN
    /\ InitStore(sort_by)
    /\ InitQueue
    /\ ret = NoRet

\* ------------------------------------------------------------- Spec: actions
\* One batch run of _process_upload_queue (lines 99-175) on a batch of jobs.
UploadBatch(batch) ==
    /\ fs_time + WritesOf(batch, proxy) <= MaxWrites
    /\ \E st \in {process_batch(Store, batch)} : SetStore(st)
    /\ ret' = [NoRet EXCEPT !.op = "process_upload_queue", !.list = HashList(batch),
                            !.labels = [i \in 1..Len(batch) |-> batch[i].uploader_name]]
    /\ images_cache' = NoCache
    /\ UNCHANGED <<cursorVars, queueVars, listing, worker, reload_signals, pm, slide>>

\* DELETE /api/images/<filename>: 404 unless the proxy exists.
delete_image(h) ==
    /\ Exists(proxy, h)
    /\ proxy' = [proxy EXCEPT ![h] = None]
    /\ encoded' = [encoded EXCEPT ![h] = 0]
    /\ metadata' = remove_metadata(h, metadata)
    /\ playlists' = remove_image(h, playlists)
    /\ ret' = [NoRet EXCEPT !.op = "delete_image", !.path = h]
    /\ images_cache' = NoCache
    /\ UNCHANGED <<fs_time, cursorVars, queueVars, listing, worker, reload_signals, pm, slide>>

\* A proxy file is deleted behind the program's back (what
\* ImageFileHandler.on_deleted and the lazy existence checks are for).
DeletedOutOfBand(h) ==
    /\ Exists(proxy, h)
    /\ proxy' = [proxy EXCEPT ![h] = None]
    /\ encoded' = [encoded EXCEPT ![h] = 0]
    /\ ret' = NoRet
    /\ UNCHANGED <<fs_time, metadata, playlists, cursorVars, queueVars, webVars>>

\* An index file disappears, or is left in a state json.load rejects.
IndexFileLost(p) ==
    /\ playlists[p] # Missing
    /\ playlists' = [playlists EXCEPT ![p] = Missing]
    /\ ret' = NoRet
    /\ UNCHANGED <<proxy, fs_time, encoded, metadata, cursorVars, queueVars, webVars>>

IndexFileDamaged(p) ==
    /\ playlists[p] \notin {Missing, Unreadable}
    /\ playlists' = [playlists EXCEPT ![p] = Unreadable]
    /\ ret' = NoRet
    /\ UNCHANGED <<proxy, fs_time, encoded, metadata, cursorVars, queueVars, webVars>>

\* update_playlist_for_image(image_hash, sort_by): rebuild of one policy.
Rebuild(p, order) ==
    /\ playlists' = [playlists EXCEPT ![p] = rebuild_playlist(p, order, proxy, metadata)]
    /\ ret' = [NoRet EXCEPT !.op = "rebuild_playlist", !.policy = p, !.was = playlists[p].kind,
                            !.list = [i \in 1..Len(playlists[p].entries) |->
                                         playlists[p].entries[i].hash]]
    /\ UNCHANGED <<proxy, fs_time, encoded, metadata, cursorVars, queueVars, webVars>>

\* PlaylistManager.get_playlist(sort_by), called on its own.
Load(p, order) ==
    LET r == get_playlist(p, order, playlists[p], proxy, metadata)
    IN  /\ playlists' = [playlists EXCEPT ![p] = r.file]
        /\ ret' = [NoRet EXCEPT !.op = "get_playlist", !.policy = p,
                                !.list = r.hashes, !.was = playlists[p].kind]
        /\ UNCHANGED <<proxy, fs_time, encoded, metadata, cursorVars, queueVars, webVars>>

CursorCall(name, r) ==
    /\ SetCursor(r.c)
    /\ ret' = [NoRet EXCEPT !.op = name, !.path = r.path, !.refreshed = r.refreshed,
                            !.policy = sort_by]
    /\ UNCHANGED <<proxy, fs_time, encoded, metadata, sort_by, loop, queueVars, webVars>>

Refresh(order) ==
    /\ SetCursor(refresh(Cursor, sort_by, order, proxy, metadata))
    /\ ret' = [NoRet EXCEPT !.op = "refresh", !.policy = sort_by]
    /\ UNCHANGED <<proxy, fs_time, encoded, metadata, sort_by, loop, queueVars, webVars>>

GetCurrentImage(order) ==
    CursorCall("get_current_image", get_current_image(Cursor, sort_by, order, proxy, metadata))

NextImage(order) ==
    CursorCall("next_image", next_image(Cursor, sort_by, loop, order, proxy, metadata))

PreviousImage(order) ==
    CursorCall("previous_image", previous_image(Cursor, sort_by, loop, order, proxy, metadata))

Ingestion ==
    \/ \E batch \in BatchInputs : UploadBatch(batch)
    \/ \E h \in Hashes : delete_image(h)
    \/ \E h \in Hashes : DeletedOutOfBand(h)

Next ==
    \/ Ingestion
    \/ IndexFileLost(sort_by)
    \/ IndexFileDamaged(sort_by)
    \/ \E order \in Orderings(Artifacts(proxy)) : Rebuild(sort_by, order)
    \/ \E order \in Orderings(Artifacts(proxy)) : Load(sort_by, order)

Spec == Init /\ [][Next]_vars

NextC ==
    \/ Ingestion
    \/ \E order \in Orderings(Artifacts(proxy)) : Refresh(order)
    \/ \E order \in Orderings(Artifacts(proxy)) : GetCurrentImage(order)
    \/ \E order \in Orderings(Artifacts(proxy)) : NextImage(order)
    \/ \E order \in Orderings(Artifacts(proxy)) : PreviousImage(order)

SpecC == InitC /\ [][NextC]_vars

\* SpecL: batches whose jobs come from two uploaders.
UploaderNames == {"a", "b"}
LabelledJobs == [hash : Hashes, uploader_name : UploaderNames]
LabelledBatches == UNION {[1..n -> LabelledJobs] : n \in 1..MaxBatchInput}

NextL ==
    \/ \E batch \in LabelledBatches : UploadBatch(batch)
    \/ \E h \in Hashes : delete_image(h)

SpecL == Init /\ [][NextL]_vars

\* ------------------------------------------------------------- SpecM: metadata.json that fails to load
\* lines 105-113: the table the batch run starts from.  When open or
\* json.load raises, the run goes on with an empty table.
load_metadata(md, readable) ==
    IF readable THEN md ELSE [h \in Hashes |-> NoRecord]

\* One run of the batch body; `readable` says whether metadata.json could be
\* loaded at line 109.  Line 153 writes the table the run has built.
UploadBatchLoading(batch, readable) ==
    /\ fs_time + WritesOf(batch, proxy) <= MaxWrites
    /\ \E st \in {process_batch([Store EXCEPT !.metadata = load_metadata(metadata, readable)],
                                batch)} : SetStore(st)
    /\ ret' = [NoRet EXCEPT !.op = "process_upload_queue", !.list = HashList(batch),
                            !.labels = [i \in 1..Len(batch) |-> batch[i].uploader_name],
                            !.was = IF readable THEN "loaded" ELSE "unreadable"]
    /\ images_cache' = NoCache
    /\ UNCHANGED <<cursorVars, queueVars, listing, worker, reload_signals, pm, slide>>

NextM ==
    \/ \E batch \in BatchInputs, readable \in BOOLEAN : UploadBatchLoading(batch, readable)
    \/ \E h \in Hashes : delete_image(h)

SpecM == Init /\ [][NextM]_vars

\* ------------------------------------------------------------- SpecD: a disk that refuses writes
\* get_playlist(sort_by) while the playlists directory may be unwritable.
LoadWriting(p, order, writable) ==
    LET r == get_playlist_writing(p, order, playlists[p], proxy, metadata, writable, 1)
    IN  /\ playlists' = [playlists EXCEPT ![p] = r.file]
        /\ ret' = [NoRet EXCEPT !.op = "get_playlist", !.policy = p, !.list = r.hashes,
                                !.was = playlists[p].kind, !.raised = r.raised]
        /\ UNCHANGED <<proxy, fs_time, encoded, metadata, cursorVars, queueVars, webVars>>

NextD ==
    \/ Ingestion
    \/ IndexFileLost(sort_by)
    \/ IndexFileDamaged(sort_by)
    \/ \E order \in Orderings(Artifacts(proxy)), writable \in BOOLEAN :
          LoadWriting(sort_by, order, writable)

SpecD == Init /\ [][NextD]_vars

\* ------------------------------------------------------------- SpecF: the other ingestion paths
\* fix_missing_proxies.py, lines 84-116, for one original whose proxy was
\* missing at the scan.  acc = [st, metadata]: the files, and the metadata
\* dict the script loaded at its start and keeps in memory.  add_image reads
\* the sort key from metadata.json as it is on disk.
FixSender == "fix_missing_proxies"

FixOne(acc, h) ==
    LET r == process_image(acc.st, h)
    IN  IF ~r.ok THEN acc
        ELSE [st |-> [r.st EXCEPT !.playlists =
                         add_image(h, r.st.playlists, r.st.proxy, r.st.metadata)],
              metadata |-> IF acc.metadata[h].present THEN acc.metadata
                           ELSE [acc.metadata EXCEPT ![h] =
                                    [sender |-> FixSender,
                                     exif_date |-> ExifDate(h),
                                     present |-> TRUE]]]

RECURSIVE FixAll(_, _)
FixAll(acc, todo) ==
    IF todo = <<>> THEN acc
    ELSE FixAll(FixOne(acc, Head(todo)), Tail(todo))

\* main(): the loop, then the one write of metadata.json (lines 119-123).
fix_missing_proxies(st, todo) ==
    LET acc == FixAll([st |-> st, metadata |-> st.metadata], todo)
    IN  [acc.st EXCEPT !.metadata = acc.metadata]

\* The originals the scan of lines 55-73 can list: any files whose proxy is
\* missing, in the order rglob delivers them.
TodoLists == UNION {Orderings(S) : S \in SUBSET {h \in Hashes : ~Exists(proxy, h)} \ {{}}}

FixMissingProxies(todo) ==
    /\ fs_time + WritesOf([i \in 1..Len(todo) |-> [hash |-> todo[i]]], proxy) <= MaxWrites
    /\ \E st \in {fix_missing_proxies(Store, todo)} : SetStore(st)
    /\ ret' = [NoRet EXCEPT !.op = "fix_missing_proxies", !.list = todo]
    /\ UNCHANGED <<cursorVars, queueVars, webVars>>

\* MainWindow.check_emails, lines 4345-4385, for the downloaded images: the
\* proxy, the metadata record (read, set, written) and the index entries,
\* one image after the other.  process_image raising leaves the loop and
\* the method (ok = FALSE): nothing inside the loop catches it.
RECURSIVE EmailAll(_, _)
EmailAll(st, downloaded) ==
    IF downloaded = <<>> THEN [ok |-> TRUE, st |-> st]
    ELSE LET job == Head(downloaded)
             r == process_image(st, job.hash)
         IN  IF ~r.ok THEN [ok |-> FALSE, st |-> st]
             ELSE LET md == [r.st.metadata EXCEPT ![job.hash] =
                                [sender |-> job.uploader_name,
                                 exif_date |-> ExifDate(job.hash),
                                 present |-> TRUE]]
                      st1 == [r.st EXCEPT !.metadata = md,
                                          !.playlists = add_image(job.hash, r.st.playlists,
                                                                  r.st.proxy, md)]
                  IN  EmailAll(st1, Tail(downloaded))

\* check_emails; lines 4399-4401 refresh the slideshow when the loop ended
\* without an exception.
CheckEmails(downloaded) ==
    /\ fs_time + WritesOf(downloaded, proxy) <= MaxWrites
    /\ \E r \in {EmailAll(Store, downloaded)} :
       \E order \in Orderings(Artifacts(r.st.proxy)) :
       \E c \in {IF r.ok
                 THEN refresh([images |-> images, current_index |-> current_index,
                               file |-> r.st.playlists[sort_by]],
                              sort_by, order, r.st.proxy, r.st.metadata)
                 ELSE [images |-> images, current_index |-> current_index,
                       file |-> r.st.playlists[sort_by]]} :
          /\ proxy' = r.st.proxy
          /\ fs_time' = r.st.fs_time
          /\ encoded' = r.st.encoded
          /\ metadata' = r.st.metadata
          /\ playlists' = [r.st.playlists EXCEPT ![sort_by] = c.file]
          /\ images' = c.images
          /\ current_index' = c.current_index
          /\ ret' = [NoRet EXCEPT !.op = "check_emails",
                                  !.list = HashList(downloaded),
                                  !.refreshed = r.ok]
    /\ UNCHANGED <<sort_by, loop, queueVars, webVars>>

NextF ==
    \/ Ingestion
    \/ \E todo \in TodoLists : FixMissingProxies(todo)
    \/ \E downloaded \in BatchInputs : CheckEmails(downloaded)

SpecF == Init /\ [][NextF]_vars

\* ------------------------------------------------------------- SpecW: the batch run step by step
\* _process_upload_queue from line 97 on, as the steps between which another
\* request thread of the web server can run: delete_image and get_images.

\* lines 97-113: the flag is set and metadata.json is read, once.
BatchLoad(batch) ==
    /\ worker.pc = "idle"
    /\ ~is_processing
    /\ batch_runs < MaxBatchRuns
    /\ batch_runs' = batch_runs + 1
    /\ is_processing' = TRUE
    /\ worker' = [pc |-> "loaded", batch |-> batch, metadata |-> metadata]
    /\ UNCHANGED <<storeVars, cursorVars, ret, images_cache, listing, reload_signals, pm, slide>>
    /\ UNCHANGED <<upload_queue, processing_timer, upload_in_progress, in_progress_lock,
                   timers, cb, prod, appended, since_submit, late_submit>>

\* lines 116-147: the loop over the jobs; records go to the table in memory.
BatchMaterialize ==
    /\ worker.pc = "loaded"
    /\ fs_time + WritesOf(worker.batch, proxy) <= MaxWrites
    /\ \E st \in {MaterializeAll([Store EXCEPT !.metadata = worker.metadata], worker.batch)} :
          /\ proxy' = st.proxy
          /\ fs_time' = st.fs_time
          /\ encoded' = st.encoded
          /\ worker' = [worker EXCEPT !.pc = "materialized", !.metadata = st.metadata]
    /\ UNCHANGED <<metadata, playlists, cursorVars, queueVars, ret, images_cache, listing,
                   reload_signals, pm, slide>>

\* lines 149-192: the table in memory replaces metadata.json, every job is
\* inserted into the indices, the cache is dropped and, no job being left in
\* the queue, the reload signal is put.
BatchPersist ==
    /\ worker.pc = "materialized"
    /\ metadata' = worker.metadata
    /\ playlists' = InsertAll(playlists, worker.batch, proxy, worker.metadata)
    /\ images_cache' = NoCache
    /\ reload_signals' = 1
    /\ worker' = [worker EXCEPT !.pc = "finally"]
    /\ UNCHANGED <<proxy, fs_time, encoded, cursorVars, queueVars, ret, listing, pm, slide>>

\* line 206.  worker.batch keeps the jobs of the run that has just ended.
BatchFinally ==
    /\ worker.pc = "finally"
    /\ is_processing' = FALSE
    /\ worker' = [worker EXCEPT !.pc = "idle"]
    /\ ret' = [NoRet EXCEPT !.op = "process_upload_queue", !.list = HashList(worker.batch)]
    /\ UNCHANGED <<storeVars, cursorVars, images_cache, listing, reload_signals, pm, slide>>
    /\ UNCHANGED <<upload_queue, processing_timer, upload_in_progress, in_progress_lock,
                   timers, cb, prod, appended, since_submit, batch_runs, late_submit>>

\* get_images, lines 311-314: glob("*.jpg") sorted by mtime, newest first.
list_images(px) ==
    LET order == CHOOSE o \in Orderings(Artifacts(px)) : TRUE
        sorted == SortDesc([i \in 1..Len(order) |->
                               [hash |-> order[i], sort_key |-> px[order[i]]]])
    IN  [i \in 1..Len(sorted) |-> sorted[i].hash]

\* get_images, lines 285-287: a cache younger than 5 s is the answer.
GetImagesCached ==
    /\ images_cache.set /\ images_cache.fresh
    /\ ret' = [NoRet EXCEPT !.op = "get_images", !.list = images_cache.images,
                            !.was = "cache"]
    /\ UNCHANGED <<storeVars, cursorVars, queueVars, webVars>>

\* get_images, lines 285-314: no usable cache; the directory is listed.
GetImagesBegin ==
    /\ listing.pc = "idle"
    /\ ~(images_cache.set /\ images_cache.fresh)
    /\ listing' = [pc |-> "listed", images |-> list_images(proxy)]
    /\ UNCHANGED <<storeVars, cursorVars, queueVars, ret, images_cache, worker,
                   reload_signals, pm, slide>>

\* get_images, lines 316-328: the list is stored in the cache and returned.
GetImagesEnd ==
    /\ listing.pc = "listed"
    /\ images_cache' = [set |-> TRUE, fresh |-> TRUE, images |-> listing.images]
    /\ ret' = [NoRet EXCEPT !.op = "get_images", !.list = listing.images, !.was = "glob"]
    /\ listing' = [pc |-> "idle", images |-> <<>>]
    /\ UNCHANGED <<storeVars, cursorVars, queueVars, worker, reload_signals, pm, slide>>

\* Five seconds pass since the time stamp of the cache (line 287).
CacheExpire ==
    /\ images_cache.set /\ images_cache.fresh
    /\ images_cache' = [images_cache EXCEPT !.fresh = FALSE]
    /\ UNCHANGED <<storeVars, cursorVars, queueVars, ret, listing, worker, reload_signals, pm, slide>>

NextW ==
    \/ \E batch \in BatchInputs : BatchLoad(batch)
    \/ BatchMaterialize
    \/ BatchPersist
    \/ BatchFinally
    \/ \E h \in Hashes : delete_image(h)
    \/ GetImagesCached
    \/ GetImagesBegin
    \/ GetImagesEnd
    \/ CacheExpire

SpecW == Init /\ [][NextW]_vars

\* ------------------------------------------------------------- SpecQ: timers
\* A threading.Timer is "created" until start(), "armed" while its thread
\* waits, "fired" while its thread runs the callback, and "dead" once the
\* thread has ended (or can never start).  cancel() before start() leaves it
\* "created_cancelled": its thread will end at once when started.
Started(t) == timers[t].state \notin {"created", "created_cancelled"}
Unused == {t \in Timers : timers[t].state = "unused"}
NewTimer == CHOOSE t \in Unused : \A o \in Unused : t <= o

\* A Timer whose thread has ended and which the attribute no longer refers to
\* is garbage: nothing can cancel, start or fire it, and its id is free again.
Collect(tm, pt) ==
    [t \in Timers |-> IF tm[t].state = "dead" /\ t # pt
                      THEN [state |-> "unused", remaining |-> 0]
                      ELSE tm[t]]

\* Timer.cancel(): no effect once the function runs or the thread has ended.
Cancelled(tm, t) ==
    IF tm[t].state = "armed" THEN [tm EXCEPT ![t] = [state |-> "dead", remaining |-> 0]]
    ELSE IF tm[t].state = "created" THEN [tm EXCEPT ![t].state = "created_cancelled"]
    ELSE tm

\* _schedule_processing, lines 64-65.
ScheduleCancel ==
    /\ timers' = IF processing_timer # None
                 THEN Collect(Cancelled(timers, processing_timer), processing_timer)
                 ELSE timers
    /\ UNCHANGED processing_timer

\* _schedule_processing, line 68: the attribute now refers to the new Timer;
\* one that was never started and is no longer referred to can never run.
ScheduleNew ==
    /\ Unused # {}
    /\ LET old == processing_timer
           dropped == IF old # None /\ ~Started(old)
                      THEN [timers EXCEPT ![old] = [state |-> "dead", remaining |-> 0]]
                      ELSE timers
       IN  timers' = Collect([dropped EXCEPT ![NewTimer] = [state |-> "created", remaining |-> 0]],
                             NewTimer)
    /\ processing_timer' = NewTimer

\* _schedule_processing, lines 69-70, on whatever Timer the attribute refers
\* to now.  A Timer that was started before raises RuntimeError; the caller
\* unwinds the same way as after a return.
ScheduleStart ==
    /\ timers' = IF timers[processing_timer].state = "created"
                 THEN [timers EXCEPT ![processing_timer] =
                          [state |-> "armed", remaining |-> DelayTicks]]
                 ELSE IF timers[processing_timer].state = "created_cancelled"
                 THEN [timers EXCEPT ![processing_timer] = [state |-> "dead", remaining |-> 0]]
                 ELSE timers
    /\ UNCHANGED processing_timer

unchangedStore == UNCHANGED <<storeVars, cursorVars, ret, webVars>>

\* ------------------------------------------------------------- SpecQ: upload_image
\* The job a request appends: its raw file is the n-th one saved.
JobHash(n) == ((n - 1) % NumHashes) + 1
Job(n) == [original_path |-> n, hash |-> JobHash(n), uploader_name |-> "a"]

\* Requests that still have to create their Timer; a request is accepted
\* only while a Timer id is left for it.
BeforeNew(u) == prod[u] \in {"save", "cancel", "new"}

\* lines 652-678: the request passes validation and sets the flag.  SpecQ
\* follows one burst of uploads: requests arrive until the first batch is
\* taken, and at most MaxSubmits of them.
UploadBegin(u) ==
    /\ prod[u] = "idle"
    /\ batch_runs = 0
    /\ appended + Cardinality({v \in Producers : prod[v] = "save"}) < MaxSubmits
    /\ Cardinality(Unused) > Cardinality({v \in Producers : BeforeNew(v)})
    /\ in_progress_lock = None
    /\ upload_in_progress' = TRUE
    /\ prod' = [prod EXCEPT ![u] = "save"]
    /\ UNCHANGED <<upload_queue, processing_timer, is_processing, in_progress_lock,
                   timers, cb, appended, since_submit, batch_runs, late_submit>>
    /\ unchangedStore

\* lines 681-717: the raw file is saved and the job appended.
UploadEnqueue(u) ==
    /\ prod[u] = "save"
    /\ upload_queue' = Append(upload_queue, Job(appended + 1))
    /\ appended' = appended + 1
    /\ since_submit' = 0
    /\ late_submit' = (late_submit \/ batch_runs > 0)
    /\ prod' = [prod EXCEPT ![u] = "cancel"]
    /\ UNCHANGED <<processing_timer, is_processing, upload_in_progress, in_progress_lock,
                   timers, cb, batch_runs>>
    /\ unchangedStore

\* line 720: _schedule_processing, one shared access per step.
UploadSchedule(u) ==
    /\ \/ prod[u] = "cancel" /\ ScheduleCancel /\ prod' = [prod EXCEPT ![u] = "new"]
       \/ prod[u] = "new" /\ ScheduleNew /\ prod' = [prod EXCEPT ![u] = "start"]
       \/ prod[u] = "start" /\ ScheduleStart /\ prod' = [prod EXCEPT ![u] = "finally"]
    /\ UNCHANGED <<upload_queue, is_processing, upload_in_progress, in_progress_lock,
                   cb, appended, since_submit, batch_runs, late_submit>>
    /\ unchangedStore

\* lines 721-724: the flag is cleared.
UploadFinally(u) ==
    /\ prod[u] = "finally"
    /\ in_progress_lock = None
    /\ upload_in_progress' = FALSE
    /\ prod' = [prod EXCEPT ![u] = "idle"]
    /\ UNCHANGED <<upload_queue, processing_timer, is_processing, in_progress_lock,
                   timers, cb, appended, since_submit, batch_runs, late_submit>>
    /\ unchangedStore


\* ------------------------------------------------------------- SpecI: PlaylistManager calls that overlap
\* add_image, remove_image and rebuild_playlist run in the thread of their
\* caller and take no lock; each reads an index file and writes it later.
\* pm[c] is the call of caller c: the hash, the policies still to do, the
\* file as it was read, and whether the call has written anything.

\* add_image and remove_image go through the policies in this order.
PolicyOrder == <<"transfer_time", "creation_time", "random">>

\* A batch run or an email check for one job, up to its call of add_image
\* (web_interface.py lines 116-166): the job is materialized and
\* metadata.json written.
AddImageBegin(job) ==
    /\ pm["insert"].pc = "idle"
    /\ pm["insert"].calls < MaxCalls
    /\ fs_time + WritesOf(<<job>>, proxy) <= MaxWrites
    /\ \E st \in {MaterializeJob(Store, job)} :
          /\ proxy' = st.proxy
          /\ fs_time' = st.fs_time
          /\ encoded' = st.encoded
          /\ metadata' = st.metadata
    /\ pm' = [pm EXCEPT !["insert"] = [IdleCall EXCEPT !.pc = "load", !.hash = job.hash,
                                                      !.todo = PolicyOrder,
                                                      !.calls = pm["insert"].calls + 1]]
    /\ UNCHANGED <<playlists, cursorVars, queueVars, ret, images_cache, listing, worker,
                   reload_signals, slide>>

\* delete_image up to its call of remove_image (lines 386-437).
DeleteBegin(h) ==
    /\ pm["remove"].pc = "idle"
    /\ pm["remove"].calls < MaxCalls
    /\ Exists(proxy, h)
    /\ proxy' = [proxy EXCEPT ![h] = None]
    /\ encoded' = [encoded EXCEPT ![h] = 0]
    /\ metadata' = remove_metadata(h, metadata)
    /\ pm' = [pm EXCEPT !["remove"] = [IdleCall EXCEPT !.pc = "load", !.hash = h,
                                                      !.todo = PolicyOrder,
                                                      !.calls = pm["remove"].calls + 1]]
    /\ UNCHANGED <<fs_time, playlists, cursorVars, queueVars, ret, images_cache, listing,
                   worker, reload_signals, slide>>

\* _add_to_playlist lines 85-93, remove_image lines 126-129: the file of the
\* next policy is read.
PlaylistLoad(c) ==
    /\ c \in {"insert", "remove"}
    /\ pm[c].pc = "load"
    /\ pm' = [pm EXCEPT ![c].pc = "write", ![c].file = playlists[Head(pm[c].todo)]]
    /\ UNCHANGED <<storeVars, cursorVars, queueVars, ret, images_cache, listing, worker,
                   reload_signals, slide>>

\* What the call makes of the file it has read.
Rewritten(c) ==
    LET p == Head(pm[c].todo)
    IN  IF c = "insert"
        THEN add_to_playlist(pm[c].hash, p, pm[c].file, proxy, metadata)
        ELSE remove_image(pm[c].hash, [q \in Policies |-> pm[c].file])[p]

\* Whether it writes at all: _add_to_playlist returns at line 97 when the
\* hash is listed; remove_image skips a file that is absent or does not load.
Writes(c) ==
    IF c = "insert" THEN Rewritten(c) # pm[c].file ELSE IsList(pm[c].file)

\* _add_to_playlist lines 95-118, remove_image lines 131-135: the list made
\* from what was read replaces the file; then the next policy, or the return.
PlaylistWrite(c) ==
    /\ c \in {"insert", "remove"}
    /\ pm[c].pc = "write"
    /\ playlists' = IF Writes(c)
                    THEN [playlists EXCEPT ![Head(pm[c].todo)] = Rewritten(c)]
                    ELSE playlists
    /\ pm' = [pm EXCEPT ![c].todo = Tail(pm[c].todo),
                        ![c].wrote = pm[c].wrote \/ Writes(c),
                        ![c].pc = IF Tail(pm[c].todo) = <<>> THEN "return" ELSE "load"]
    /\ UNCHANGED <<proxy, fs_time, encoded, metadata, cursorVars, queueVars, ret, images_cache,
                   listing, worker, reload_signals, slide>>

\* The caller goes on: the batch run and delete_image both drop the listing
\* cache (lines 173-175, 442-443).  pm[c].hash keeps the hash of the call.
CallReturn(c) ==
    /\ c \in {"insert", "remove"}
    /\ pm[c].pc = "return"
    /\ images_cache' = NoCache
    /\ ret' = [NoRet EXCEPT !.op = IF c = "insert" THEN "add_image" ELSE "remove_image",
                            !.path = pm[c].hash,
                            !.was = IF pm[c].wrote THEN "written" ELSE "unchanged"]
    /\ pm' = [pm EXCEPT ![c] = [IdleCall EXCEPT !.hash = pm[c].hash, !.calls = pm[c].calls]]
    /\ UNCHANGED <<storeVars, cursorVars, queueVars, listing, worker, reload_signals, slide>>

\* rebuild_playlist lines 143-146: the proxy directory is listed.
RebuildGlob(order) ==
    /\ pm["rebuild"].pc = "idle"
    /\ pm["rebuild"].calls < MaxCalls
    /\ pm' = [pm EXCEPT !["rebuild"] = [IdleCall EXCEPT !.pc = "write", !.order = order,
                                                       !.calls = pm["rebuild"].calls + 1]]
    /\ UNCHANGED <<storeVars, cursorVars, queueVars, ret, images_cache, listing, worker,
                   reload_signals, slide>>

\* rebuild_playlist lines 148-169: keys, sort, write.
RebuildWrite ==
    /\ pm["rebuild"].pc = "write"
    /\ playlists' = [playlists EXCEPT
                        ![sort_by] = rebuild_playlist(sort_by, pm["rebuild"].order,
                                                      proxy, metadata)]
    /\ pm' = [pm EXCEPT !["rebuild"] = [IdleCall EXCEPT !.calls = pm["rebuild"].calls]]
    /\ UNCHANGED <<proxy, fs_time, encoded, metadata, cursorVars, queueVars, ret, images_cache,
                   listing, worker, reload_signals, slide>>

NextI ==
    \/ \E job \in Jobs : AddImageBegin(job)
    \/ \E h \in Hashes : DeleteBegin(h)
    \/ \E c \in Callers : PlaylistLoad(c)
    \/ \E c \in Callers : PlaylistWrite(c)
    \/ \E c \in Callers : CallReturn(c)
    \/ \E order \in Orderings(Artifacts(proxy)) : RebuildGlob(order)
    \/ RebuildWrite

SpecI == Init /\ [][NextI]_vars

\* ------------------------------------------------------------- SpecS: Slideshow calls that overlap
\* The GUI thread steps through the slideshow; the watchdog observer thread
\* runs on_deleted, which calls get_current_image and refresh on the same
\* Slideshow.  No lock guards images and current_index.  slide[th] is the
\* call of thread th: where it stands, the method the thread entered, and
\* the list refresh has built but not yet assigned.

\* The Slideshow methods the GUI calls.
SlideOps == {"get_current_image", "next_image", "previous_image"}

\* next_image lines 145-152, previous_image lines 160-167: the index after
\* the step, wrapped or clamped.
Stepped(op) ==
    IF op = "next_image"
    THEN IF current_index + 1 >= Len(images)
         THEN (IF loop THEN 0 ELSE Len(images) - 1)
         ELSE current_index + 1
    ELSE IF op = "previous_image"
    THEN IF current_index - 1 < 0
         THEN (IF loop THEN Len(images) - 1 ELSE 0)
         ELSE current_index - 1
    ELSE current_index

\* Where a thread goes when its get_current_image call is over: on_deleted
\* goes on to refresh (file_watcher.py line 97).
Returned(th) ==
    [slide EXCEPT ![th] = IF slide[th].op = "on_deleted"
                          THEN [slide[th] EXCEPT !.pc = "reload"]
                          ELSE IdleSlide]

\* The GUI calls get_current_image, next_image or previous_image; the two
\* steppers return None on an empty list and move the index otherwise
\* (slideshow.py lines 141-152, 156-167).
UiCall(op) ==
    /\ slide["ui"].pc = "idle"
    /\ IF op # "get_current_image" /\ images = <<>>
       THEN /\ ret' = [NoRet EXCEPT !.op = op, !.policy = sort_by]
            /\ UNCHANGED <<current_index, slide>>
       ELSE /\ current_index' = Stepped(op)
            /\ slide' = [slide EXCEPT !["ui"] = [IdleSlide EXCEPT !.pc = "current", !.op = op]]
            /\ UNCHANGED ret
    /\ UNCHANGED <<storeVars, images, sort_by, loop, queueVars, images_cache, listing, worker,
                   reload_signals, pm>>

\* The GUI thread handles the refresh signal: Slideshow.refresh in one piece.
UiRefresh(order) ==
    /\ slide["ui"].pc = "idle"
    /\ Refresh(order)

\* A proxy is deleted through the web interface while the observer is idle:
\* the store changes as in delete_image, and the observer thread enters
\* on_deleted (file_watcher.py lines 82-92).
WatchedDelete(h) ==
    /\ slide["watcher"].pc = "idle"
    /\ Exists(proxy, h)
    /\ proxy' = [proxy EXCEPT ![h] = None]
    /\ encoded' = [encoded EXCEPT ![h] = 0]
    /\ metadata' = remove_metadata(h, metadata)
    /\ playlists' = remove_image(h, playlists)
    /\ ret' = [NoRet EXCEPT !.op = "delete_image", !.path = h]
    /\ images_cache' = NoCache
    /\ slide' = [slide EXCEPT !["watcher"] =
                    [IdleSlide EXCEPT !.pc = "current", !.op = "on_deleted"]]
    /\ UNCHANGED <<fs_time, cursorVars, queueVars, listing, worker, reload_signals, pm>>

\* get_current_image lines 126-127: `if not self.images`.
CurrentCheck(th) ==
    /\ slide[th].pc = "current"
    /\ IF images = <<>>
       THEN /\ slide' = Returned(th)
            /\ ret' = [NoRet EXCEPT !.op = slide[th].op, !.policy = sort_by]
       ELSE /\ slide' = [slide EXCEPT ![th].pc = "subscript"]
            /\ UNCHANGED ret
    /\ UNCHANGED <<storeVars, cursorVars, queueVars, images_cache, listing, worker,
                   reload_signals, pm>>

\* get_current_image lines 129-138: self.images[self.current_index] raises
\* IndexError when the index is past the end; a path whose file is gone
\* makes the thread reload the list and subscript again.
CurrentSubscript(th, order) ==
    /\ slide[th].pc = "subscript"
    /\ slide' = Returned(th)
    /\ IF current_index >= Len(images)
       THEN /\ ret' = [NoRet EXCEPT !.op = slide[th].op, !.policy = sort_by,
                                    !.was = "IndexError"]
            /\ UNCHANGED <<playlists, images, current_index>>
       ELSE IF Exists(proxy, images[current_index + 1])
       THEN /\ ret' = [NoRet EXCEPT !.op = slide[th].op, !.policy = sort_by,
                                    !.path = images[current_index + 1]]
            /\ UNCHANGED <<playlists, images, current_index>>
       ELSE \E c \in {refresh_image_list(Cursor, sort_by, order, proxy, metadata)} :
               /\ SetCursor(c)
               /\ ret' = [NoRet EXCEPT !.op = slide[th].op, !.policy = sort_by,
                                       !.refreshed = TRUE,
                                       !.path = IF c.images # <<>>
                                                THEN c.images[c.current_index + 1]
                                                ELSE None]
    /\ UNCHANGED <<proxy, fs_time, encoded, metadata, sort_by, loop, queueVars, images_cache,
                   listing, worker, reload_signals, pm>>

\* refresh lines 177-187, in the observer thread: the index is loaded and
\* filtered into a local list.
WatcherReload(order) ==
    /\ slide["watcher"].pc = "reload"
    /\ \E r \in {get_playlist(sort_by, order, playlists[sort_by], proxy, metadata)} :
          /\ playlists' = [playlists EXCEPT ![sort_by] = r.file]
          /\ slide' = [slide EXCEPT !["watcher"].pc = "assign",
                                    !["watcher"].new = SelectSeqBy(r.hashes, proxy, TRUE)]
    /\ UNCHANGED <<proxy, fs_time, encoded, metadata, cursorVars, queueVars, ret, images_cache,
                   listing, worker, reload_signals, pm>>

\* refresh line 190: self.images = new_image_paths.
WatcherAssign ==
    /\ slide["watcher"].pc = "assign"
    /\ images' = slide["watcher"].new
    /\ slide' = [slide EXCEPT !["watcher"].pc = "clamp"]
    /\ UNCHANGED <<storeVars, current_index, sort_by, loop, queueVars, ret, images_cache,
                   listing, worker, reload_signals, pm>>

\* refresh lines 193-196 (and file_watcher.py lines 100-103): the index goes
\* back to 0 when it is past the end.
WatcherClamp ==
    /\ slide["watcher"].pc = "clamp"
    /\ current_index' = IF Len(images) = 0 \/ current_index >= Len(images)
                        THEN 0 ELSE current_index
    /\ slide' = [slide EXCEPT !["watcher"] = IdleSlide]
    /\ ret' = [NoRet EXCEPT !.op = "on_deleted", !.policy = sort_by]
    /\ UNCHANGED <<storeVars, images, sort_by, loop, queueVars, images_cache, listing, worker,
                   reload_signals, pm>>

NextS ==
    \/ \E job \in Jobs : UploadBatch(<<job>>)
    \/ \E h \in Hashes : WatchedDelete(h)
    \/ \E op \in SlideOps : UiCall(op)
    \/ \E order \in Orderings(Artifacts(proxy)) : UiRefresh(order)
    \/ \E th \in SlideThreads : CurrentCheck(th)
    \/ \E th \in SlideThreads, order \in Orderings(Artifacts(proxy)) : CurrentSubscript(th, order)
    \/ \E order \in Orderings(Artifacts(proxy)) : WatcherReload(order)
    \/ WatcherAssign
    \/ WatcherClamp

SpecS == InitC /\ [][NextS]_vars

\* ------------------------------------------------------------- SpecU: rejected uploads
\* upload_image with the requests it turns down.  SpecU follows the request
\* threads and the debounce timer up to its expiry.

\* lines 653-674: no file, empty file name, more than 16 MB or an extension
\* is_supported refuses: the request returns before the flag is touched.
Rejections == {"400 Keine Datei", "400 Keine Datei ausgewaehlt", "413", "400 Dateiformat"}

UploadReject(u, why) ==
    /\ prod[u] = "idle"
    /\ ret' = [NoRet EXCEPT !.op = "upload_image", !.was = why]
    /\ UNCHANGED <<storeVars, cursorVars, queueVars, webVars>>

\* Mutant: the flag is not cleared when saving fails.
UploadAbort_no_finally(u) ==
    /\ prod[u] = "save"
    /\ in_progress_lock = None
    /\ prod' = [prod EXCEPT ![u] = "idle"]
    /\ ret' = [NoRet EXCEPT !.op = "upload_image", !.was = "500"]
    /\ UNCHANGED <<upload_queue, processing_timer, is_processing, upload_in_progress,
                   in_progress_lock, timers, cb, appended, since_submit, batch_runs,
                   late_submit>>
    /\ UNCHANGED <<storeVars, cursorVars, webVars>>

\* lines 680-703, 721-724, 735-737: file.save raises, or the file is not
\* there afterwards: the finally block clears the flag and the request
\* returns 500.
UploadAbort(u) ==
    /\ prod[u] = "save"
    /\ in_progress_lock = None
    /\ upload_in_progress' = FALSE
    /\ prod' = [prod EXCEPT ![u] = "idle"]
    /\ ret' = [NoRet EXCEPT !.op = "upload_image", !.was = "500"]
    /\ UNCHANGED <<upload_queue, processing_timer, is_processing, in_progress_lock,
                   timers, cb, appended, since_submit, batch_runs, late_submit>>
    /\ UNCHANGED <<storeVars, cursorVars, webVars>>

\* ------------------------------------------------------------- SpecQ: the clock
\* One tick of the clock.  A Timer whose interval has run out fires before
\* the clock moves on.
Tick ==
    /\ \A t \in Timers : timers[t].state = "armed" => timers[t].remaining > 0
    /\ \/ \E t \in Timers : timers[t].state = "armed"
       \/ since_submit < DelayTicks
    /\ timers' = [t \in Timers |->
                    IF timers[t].state = "armed"
                    THEN [timers[t] EXCEPT !.remaining = timers[t].remaining - 1]
                    ELSE timers[t]]
    /\ since_submit' = IF since_submit < DelayTicks THEN since_submit + 1 ELSE since_submit
    /\ UNCHANGED <<upload_queue, processing_timer, is_processing, upload_in_progress,
                   in_progress_lock, cb, prod, appended, batch_runs, late_submit>>
    /\ unchangedStore

\* Timer.run(): the interval has passed without cancel(); the thread calls
\* _process_upload_queue.
Fire(t) ==
    /\ timers[t].state = "armed"
    /\ timers[t].remaining = 0
    /\ timers' = [timers EXCEPT ![t].state = "fired"]
    /\ cb' = [cb EXCEPT ![t].pc = "check"]
    /\ UNCHANGED <<upload_queue, processing_timer, is_processing, upload_in_progress,
                   in_progress_lock, prod, appended, since_submit, batch_runs, late_submit>>
    /\ unchangedStore

\* ------------------------------------------------------------- SpecQ: _process_upload_queue
\* The callback of timer t returns (or dies of an exception): its thread ends.
Ended(t) == [cb EXCEPT ![t] = [pc |-> "idle", batch |-> <<>>, queue_remaining |-> 0]]
Dead(t) == Collect([timers EXCEPT ![t] = [state |-> "dead", remaining |-> 0]], processing_timer)
Goto(t, pc) == [cb EXCEPT ![t].pc = pc]

\* lines 75-77.
CheckProcessing(t) ==
    /\ cb[t].pc = "check"
    /\ IF is_processing
       THEN cb' = Ended(t) /\ timers' = Dead(t)
       ELSE cb' = Goto(t, "guard") /\ UNCHANGED timers
    /\ UNCHANGED <<upload_queue, processing_timer, is_processing, upload_in_progress,
                   in_progress_lock, prod, appended, since_submit, batch_runs, late_submit>>
    /\ unchangedStore

\* Mutant: the callback does not look at _upload_in_progress.
CheckUploadInProgress_ignoring(t) ==
    /\ cb[t].pc = "guard"
    /\ in_progress_lock = None
    /\ cb' = Goto(t, "take")
    /\ UNCHANGED <<upload_queue, processing_timer, is_processing, upload_in_progress,
                   in_progress_lock, timers, prod, appended, since_submit, batch_runs,
                   late_submit>>
    /\ unchangedStore

\* lines 80-85: under the flag's lock; the lock stays held while
\* _schedule_processing runs.
CheckUploadInProgress(t) ==
    /\ cb[t].pc = "guard"
    /\ in_progress_lock = None
    /\ IF upload_in_progress
       THEN cb' = Goto(t, "guard_cancel") /\ in_progress_lock' = t
       ELSE cb' = Goto(t, "take") /\ UNCHANGED in_progress_lock
    /\ UNCHANGED <<upload_queue, processing_timer, is_processing, upload_in_progress,
                   timers, prod, appended, since_submit, batch_runs, late_submit>>
    /\ unchangedStore

\* line 84: _schedule_processing, then return.
Reschedule(t) ==
    /\ \/ /\ cb[t].pc = "guard_cancel"
          /\ ScheduleCancel
          /\ cb' = Goto(t, "guard_new")
          /\ UNCHANGED in_progress_lock
       \/ /\ cb[t].pc = "guard_new"
          /\ ScheduleNew
          /\ cb' = Goto(t, "guard_start")
          /\ UNCHANGED in_progress_lock
       \/ /\ cb[t].pc = "guard_start"
          /\ ScheduleStart
          /\ cb' = Goto(t, "guard_return")
          /\ in_progress_lock' = None
       \/ /\ cb[t].pc = "guard_return"
          /\ cb' = Ended(t)
          /\ timers' = Dead(t)
          /\ UNCHANGED <<processing_timer, in_progress_lock>>
    /\ UNCHANGED <<upload_queue, is_processing, upload_in_progress,
                   prod, appended, since_submit, batch_runs, late_submit>>
    /\ unchangedStore

\* Mutant: no upper bound on the batch.
Min_unbounded(a, b) == b

Min(a, b) == IF a < b THEN a ELSE b

\* Mutant: the batch is taken off the end of the queue, newest job first.
TakeBatch_newest_first(t) ==
    /\ cb[t].pc = "take"
    /\ IF upload_queue = <<>>
       THEN /\ cb' = Ended(t)
            /\ timers' = Dead(t)
            /\ UNCHANGED <<upload_queue, batch_runs>>
       ELSE LET batch_size == Min(processing_batch_size, Len(upload_queue))
            IN  /\ cb' = [cb EXCEPT ![t] =
                            [pc |-> "run",
                             batch |-> [i \in 1..batch_size |->
                                           upload_queue[Len(upload_queue) - i + 1]],
                             queue_remaining |-> Len(upload_queue) - batch_size]]
                /\ upload_queue' = SubSeq(upload_queue, 1, Len(upload_queue) - batch_size)
                /\ batch_runs' = batch_runs + 1
                /\ UNCHANGED timers
    /\ UNCHANGED <<processing_timer, is_processing, upload_in_progress, in_progress_lock,
                   prod, appended, since_submit, late_submit>>
    /\ unchangedStore

\* Mutant: the batch is copied and the queue is left as it is.
TakeBatch_keeping(t) ==
    /\ cb[t].pc = "take"
    /\ IF upload_queue = <<>>
       THEN /\ cb' = Ended(t)
            /\ timers' = Dead(t)
            /\ UNCHANGED batch_runs
       ELSE /\ cb' = [cb EXCEPT ![t] =
                        [pc |-> "run",
                         batch |-> SubSeq(upload_queue, 1,
                                          Min(processing_batch_size, Len(upload_queue))),
                         queue_remaining |-> 0]]
            /\ batch_runs' = batch_runs + 1
            /\ UNCHANGED timers
    /\ UNCHANGED <<upload_queue, processing_timer, is_processing, upload_in_progress,
                   in_progress_lock, prod, appended, since_submit, late_submit>>
    /\ unchangedStore

\* lines 87-95: under the queue's lock.
TakeBatch(t) ==
    /\ cb[t].pc = "take"
    /\ IF upload_queue = <<>>
       THEN /\ cb' = Ended(t)
            /\ timers' = Dead(t)
            /\ UNCHANGED <<upload_queue, batch_runs>>
       ELSE LET batch_size == Min(processing_batch_size, Len(upload_queue))
            IN  /\ cb' = [cb EXCEPT ![t] =
                            [pc |-> "run",
                             batch |-> SubSeq(upload_queue, 1, batch_size),
                             queue_remaining |-> Len(upload_queue) - batch_size]]
                /\ upload_queue' = SubSeq(upload_queue, batch_size + 1, Len(upload_queue))
                /\ batch_runs' = batch_runs + 1
                /\ UNCHANGED timers
    /\ UNCHANGED <<processing_timer, is_processing, upload_in_progress, in_progress_lock,
                   prod, appended, since_submit, late_submit>>
    /\ unchangedStore

\* lines 97-192: the flag is set, the batch is processed, the listing cache
\* is dropped and, when the queue was empty after the take, the GUI is told
\* to reload.
RunBatch(t) ==
    /\ cb[t].pc = "run"
    /\ is_processing' = TRUE
    /\ \E st \in {process_batch(Store, cb[t].batch)} : SetStore(st)
    /\ images_cache' = NoCache
    /\ reload_signals' = IF cb[t].queue_remaining = 0 THEN 1 ELSE 0
    /\ cb' = Goto(t, IF cb[t].queue_remaining > 0 THEN "more" ELSE "finally")
    /\ UNCHANGED <<upload_queue, processing_timer, upload_in_progress, in_progress_lock,
                   timers, prod, appended, since_submit, batch_runs, late_submit>>
    /\ UNCHANGED <<cursorVars, ret, listing, worker, pm, slide>>

\* lines 195-198: work remains; the flag's lock is taken and kept.
CheckMore(t) ==
    /\ cb[t].pc = "more"
    /\ in_progress_lock = None
    /\ in_progress_lock' = t
    /\ cb' = Goto(t, IF upload_in_progress THEN "more_cancel" ELSE "recurse")
    /\ UNCHANGED <<upload_queue, processing_timer, is_processing, upload_in_progress,
                   timers, prod, appended, since_submit, batch_runs, late_submit>>
    /\ unchangedStore

\* line 200: _schedule_processing under the lock, then on to finally.
RescheduleMore(t) ==
    /\ \/ /\ cb[t].pc = "more_cancel"
          /\ ScheduleCancel
          /\ cb' = Goto(t, "more_new")
          /\ UNCHANGED in_progress_lock
       \/ /\ cb[t].pc = "more_new"
          /\ ScheduleNew
          /\ cb' = Goto(t, "more_start")
          /\ UNCHANGED in_progress_lock
       \/ /\ cb[t].pc = "more_start"
          /\ ScheduleStart
          /\ cb' = Goto(t, "finally")
          /\ in_progress_lock' = None
    /\ UNCHANGED <<upload_queue, is_processing, upload_in_progress,
                   prod, appended, since_submit, batch_runs, late_submit>>
    /\ unchangedStore

\* lines 202-204: after the pause the method calls itself, the lock still
\* held.  The inner call returns at line 77 while _is_processing is set;
\* were it clear, the inner call would wait at line 80 for the lock its own
\* thread holds.
Recurse(t) ==
    /\ cb[t].pc = "recurse"
    /\ IF is_processing
       THEN cb' = Goto(t, "finally") /\ in_progress_lock' = None
       ELSE cb' = Goto(t, "blocked") /\ UNCHANGED in_progress_lock
    /\ UNCHANGED <<upload_queue, processing_timer, is_processing, upload_in_progress,
                   timers, prod, appended, since_submit, batch_runs, late_submit>>
    /\ unchangedStore

\* lines 205-206.
Finally(t) ==
    /\ cb[t].pc = "finally"
    /\ is_processing' = FALSE
    /\ cb' = Ended(t)
    /\ timers' = Dead(t)
    /\ UNCHANGED <<upload_queue, processing_timer, upload_in_progress, in_progress_lock,
                   prod, appended, since_submit, batch_runs, late_submit>>
    /\ unchangedStore

InitQ ==
    /\ InitCursor
    /\ sort_by = "transfer_time"
    /\ loop = TRUE
    /\ InitStore(sort_by)
    /\ InitQueue
    /\ ret = NoRet

NextQ ==
    \/ \E u \in Producers : UploadBegin(u)
    \/ \E u \in Producers : UploadEnqueue(u)
    \/ \E u \in Producers : UploadSchedule(u)
    \/ \E u \in Producers : UploadFinally(u)
    \/ Tick
    \/ \E t \in Timers : Fire(t)
    \/ \E t \in Timers : CheckProcessing(t)
    \/ \E t \in Timers : CheckUploadInProgress(t)
    \/ \E t \in Timers : Reschedule(t)
    \/ \E t \in Timers : TakeBatch(t)
    \/ \E t \in Timers : RunBatch(t)
    \/ \E t \in Timers : CheckMore(t)
    \/ \E t \in Timers : RescheduleMore(t)
    \/ \E t \in Timers : Recurse(t)
    \/ \E t \in Timers : Finally(t)

SpecQ == InitQ /\ [][NextQ]_vars


NextU ==
    \/ \E u \in Producers : UploadBegin(u)
    \/ \E u \in Producers : UploadEnqueue(u)
    \/ \E u \in Producers : UploadSchedule(u)
    \/ \E u \in Producers : UploadFinally(u)
    \/ \E u \in Producers : \E why \in Rejections : UploadReject(u, why)
    \/ \E u \in Producers : UploadAbort(u)
    \/ Tick

SpecU == InitQ /\ [][NextU]_vars

\* ------------------------------------------------------------- claims: SpecF
\* C11: in the captured-time index every entry of an image that carries a
\* capture timestamp has that timestamp as its sort key, and such entries
\* stand in descending order of it.
C11_CaptureTimeIndex ==
    IsList(playlists["creation_time"]) =>
        LET list == playlists["creation_time"].entries
            Dated(i) == ExifDate(list[i].hash) # None
        IN  /\ \A i \in 1..Len(list) : Dated(i) => list[i].sort_key = ExifDate(list[i].hash)
            /\ \A i, j \in 1..Len(list) :
                  (i < j /\ Dated(i) /\ Dated(j)) => list[i].sort_key >= list[j].sort_key

\* ------------------------------------------------------------- claims: SpecW
BatchHashes == Range(HashList(worker.batch))
Raises(h) == Corrupt(h) /\ ~Exists(proxy, h)

\* C13: when one job of a batch raises while it is materialized, every other
\* job of the batch still gets its artifact and its metadata record, and the
\* run goes on to write metadata.json, to insert the batch into every index,
\* to drop the listing cache and to clear _is_processing.
C13_FailureIsolated ==
    [][/\ (worker.pc = "loaded" /\ worker'.pc = "materialized"
              /\ \E h \in BatchHashes : Raises(h))
          => \A h \in BatchHashes : ~Corrupt(h) =>
                 /\ Exists(proxy', h)
                 /\ worker'.metadata[h].present
       /\ (worker.pc = "materialized" /\ worker'.pc = "finally"
              /\ \E h \in BatchHashes : Corrupt(h))
          => /\ metadata' = worker.metadata
             /\ \A h \in BatchHashes : ~Corrupt(h) => metadata'[h].present
             /\ \A h \in BatchHashes : \A p \in Policies :
                    Exists(proxy, h) =>
                        IsList(playlists'[p]) /\ h \in HashesOf(playlists'[p].entries)
             /\ images_cache' = NoCache
       /\ (worker.pc = "finally" /\ worker'.pc = "idle") => ~is_processing'
      ]_vars

\* A run of the batch [undecodable image 3, image 1] has ended: image 1 has its
\* artifact, its record and its index entries, the cache is dropped and the
\* flag is clear.
C13_Witness ==
    /\ worker.pc = "idle"
    /\ ret.op = "process_upload_queue"
    /\ ret.list = <<NumHashes, 1>>
    /\ Exists(proxy, 1)
    /\ metadata[1].present
    /\ \A p \in Policies : IsList(playlists[p]) /\ 1 \in HashesOf(playlists[p].entries)
    /\ images_cache = NoCache
    /\ ~is_processing

\* C18: a get_images answer given after a batch run has ended lists every
\* image of that batch that has an artifact.  (ret holds a get_images answer
\* only if no run has ended and no image was deleted since it was given.)
C18_ListingAfterBatch ==
    (ret.op = "get_images" /\ worker.pc = "idle") =>
        \A h \in BatchHashes : Exists(proxy, h) => h \in Range(ret.list)

\* C20: the write of metadata.json at the end of a batch run changes only the
\* records of the batch: a record that another request has deleted or
\* written since the run read the file is on disk afterwards as that request
\* left it.
C20_MetadataAtomic ==
    [][(worker.pc = "materialized" /\ worker'.pc = "finally") =>
          \A h \in Hashes \ BatchHashes : metadata'[h] = metadata[h]]_vars



\* C26: once delete_image has succeeded for an image that no running batch
\* is ingesting, and until another operation returns, the image has no
\* artifact, no metadata record and no entry in any index.
C26_DeleteRemovesEverything ==
    (ret.op = "delete_image" /\ (worker.pc = "idle" \/ ret.path \notin BatchHashes)) =>
        /\ ~Exists(proxy, ret.path)
        /\ ~metadata[ret.path].present
        /\ \A p \in Policies :
               ~(IsList(playlists[p]) /\ ret.path \in HashesOf(playlists[p].entries))

\* ------------------------------------------------------------- claims: SpecU
\* C22: a request that upload_image turns down returns an error and leaves
\* the queue, the count of accepted jobs and every timer as they were; after
\* a failed save the flag is false, and a request refused by validation does
\* not touch the flag, which is false unless another request is in flight.
C22_RejectedSubmitLeavesNoTrace ==
    [][(ret' # ret /\ ret'.op = "upload_image") =>
          /\ ret'.was \in Rejections \cup {"500"}
          /\ upload_queue' = upload_queue
          /\ appended' = appended
          /\ timers' = timers
          /\ processing_timer' = processing_timer
          /\ ret'.was = "500" => ~upload_in_progress'
          /\ ret'.was \in Rejections => upload_in_progress' = upload_in_progress
          /\ (\A u \in Producers : prod'[u] = "idle") => ~upload_in_progress']_vars

\* A save has failed while a job was pending and its timer armed.
C22_Witness ==
    /\ ret.op = "upload_image"
    /\ ret.was = "500"
    /\ upload_queue # <<>>
    /\ \E t \in Timers : timers[t].state = "armed" /\ processing_timer = t
    /\ \A u \in Producers : prod[u] = "idle"
    /\ ~upload_in_progress

\* ------------------------------------------------------------- claims: SpecQ
\* No request is in flight, no callback thread is alive and no Timer is
\* waiting or about to be started: nothing will happen until a new upload.
Quiescent ==
    /\ \A u \in Producers : prod[u] = "idle"
    /\ \A t \in Timers : cb[t].pc = "idle"
    /\ \A t \in Timers : timers[t].state \in {"unused", "dead"}

\* The callback threads between taking a batch (line 93) and the finally
\* block that clears _is_processing (line 206).
InBatchSection ==
    {t \in Timers : cb[t].pc \in {"run", "more", "more_cancel", "more_new", "more_start",
                                  "recurse", "blocked", "finally"}}

\* C1: once a burst of uploads has ended, the batch loop started by the
\* debounce expiry runs batch after batch until the queue is empty; so when
\* everything has come to rest after a burst that ended before the first
\* batch was taken, no job is left in the queue.
C1_BatchLoopDrainsQueue ==
    (Quiescent /\ batch_runs >= 1 /\ ~late_submit) => upload_queue = <<>>

\* C2: at most one thread is inside the batch-processing section of
\* _process_upload_queue at any time.
C2_OneBatchThread == Cardinality(InBatchSection) <= 1

\* C3: a batch run takes jobs off the queue only when a full debounce delay
\* has passed since the last upload was queued.
C3_DequeueOnlyAfterQuietDelay ==
    [][Len(upload_queue') < Len(upload_queue) => since_submit >= DelayTicks]_vars



\* The callback threads inside the rescheduling branch (lines 82-85).
Rescheduling == {"guard_cancel", "guard_new", "guard_start", "guard_return"}

\* C14: a callback that finds _upload_in_progress set takes the rescheduling
\* branch; on that branch it takes no job off the queue, starts no batch and
\* does not touch _is_processing.  Its _schedule_processing makes a new Timer
\* and arms it with the full delay, unless a concurrent _schedule_processing
\* has started or cancelled that Timer first; and the queue is never left at
\* rest with pending jobs before some later expiry has taken a batch.
C14_FlagDefersBatch ==
    /\ [][\A t \in Timers :
            /\ (cb[t].pc = "guard" /\ upload_in_progress /\ cb'[t] # cb[t])
               => cb'[t].pc = "guard_cancel"
            /\ (cb[t].pc \in Rescheduling /\ cb'[t] # cb[t])
               => /\ cb'[t].pc \in Rescheduling \cup {"idle"}
                  /\ cb'[t].batch = <<>>
                  /\ upload_queue' = upload_queue
                  /\ batch_runs' = batch_runs
                  /\ is_processing' = is_processing
            /\ (cb[t].pc = "guard_new" /\ cb'[t].pc = "guard_start")
               => /\ processing_timer' \notin {t, processing_timer}
                  /\ timers'[processing_timer'].state = "created"
            /\ (cb[t].pc = "guard_start" /\ cb'[t].pc = "guard_return")
               => /\ timers[processing_timer].state = "created"
                     => timers'[processing_timer] =
                            [state |-> "armed", remaining |-> DelayTicks]
                  /\ timers'[processing_timer].state \notin {"created", "unused"}]_vars
    /\ []((Quiescent /\ upload_queue # <<>>) => batch_runs >= 1)

\* A callback has rescheduled instead of running: jobs are pending, no batch
\* has been taken and a new timer is armed.
C14_Witness ==
    \E t \in Timers :
        /\ cb[t].pc = "guard_return"
        /\ upload_queue # <<>>
        /\ batch_runs = 0
        /\ \E x \in Timers \ {t} : timers[x].state = "armed" /\ processing_timer = x


\* C15: a batch is the first min(5, length) jobs of the pending list, whatever
\* the length of the list; the rest stays pending in its order.  (The jobs of
\* a batch are processed by one loop in one thread: MaterializeAll.)
C15_BatchSizeBounded ==
    /\ [](\A t \in Timers : Len(cb[t].batch) <= processing_batch_size)
    /\ [][\A t \in Timers :
            (cb[t].pc = "take" /\ cb'[t].pc = "run") =>
                /\ Len(cb'[t].batch) = Min(processing_batch_size, Len(upload_queue))
                /\ cb'[t].batch = SubSeq(upload_queue, 1, Len(cb'[t].batch))
                /\ cb'[t].queue_remaining = Len(upload_queue) - Len(cb'[t].batch)]_vars

\* A batch of 5 was taken from a pending list of 6.
C15_Witness ==
    \E t \in Timers :
        /\ Len(cb[t].batch) = processing_batch_size
        /\ cb[t].queue_remaining = 1
        /\ Len(upload_queue) = 1

\* C16: jobs that were queued after a batch was taken, so that their timer
\* may have fired into the running batch and returned at once, are processed
\* all the same: when everything has come to rest, the queue is empty.  (At
\* most 5 jobs in all, so that every batch has emptied the list it saw.)
C16_LateJobsProcessed ==
    (Quiescent /\ late_submit /\ appended <= processing_batch_size) => upload_queue = <<>>

\* The jobs in the pending list and in the batches of the running callbacks.
InFlight ==
    LET RECURSIVE Batches(_)
        Batches(n) == IF n = 0 THEN <<>> ELSE Batches(n - 1) \o cb[n].batch
    IN  upload_queue \o Batches(MaxTimers)

\* C17: the pending list changes only by the append of a job that was never
\* queued before or by a callback moving a prefix of it into its batch, and a
\* batch is set nowhere else; hence no job is in two batches, or in a batch
\* and still pending, and none leaves the list in any other way.
C17_EachJobInOneBatch ==
    /\ [](\A i, j \in 1..Len(InFlight) :
             InFlight[i].original_path = InFlight[j].original_path => i = j)
    /\ [][/\ upload_queue' # upload_queue =>
               \/ /\ appended' = appended + 1
                  /\ upload_queue' = Append(upload_queue, Job(appended'))
               \/ \E t \in Timers :
                      /\ cb[t].pc = "take" /\ cb'[t].pc = "run"
                      /\ cb'[t].batch # <<>>
                      /\ upload_queue = cb'[t].batch \o upload_queue'
          /\ \A t \in Timers :
                 cb'[t].batch # cb[t].batch =>
                     \/ cb'[t].pc = "idle" /\ cb'[t].batch = <<>>
                     \/ /\ cb[t].pc = "take" /\ cb[t].batch = <<>>
                        /\ upload_queue = cb'[t].batch \o upload_queue']_vars

\* Two callbacks hold a batch each at the same time, and a job is pending.
C17_Witness ==
    \E t, x \in Timers :
        /\ t # x
        /\ cb[t].batch # <<>>
        /\ cb[x].batch # <<>>
        /\ upload_queue # <<>>

\* C19: when the batch loop has come to rest after processing jobs, one
\* 'reload_settings' message was put on the settings queue after the last job
\* was processed.
C19_OneSignalWhenIdle ==
    (Quiescent /\ batch_runs >= 1) => reload_signals = 1


\* C21: an upload request never waits for the batch thread: while a callback
\* is between taking its batch and its finally block, it does not hold
\* _upload_in_progress_lock, which upload_image takes at lines 677 and 723.
C21_SubmitNeverWaits ==
    \A t \in InBatchSection : in_progress_lock # t

\* The producers that are writing their raw file or have not yet appended
\* their job (lines 681-717).
MidWrite == {u \in Producers : prod[u] = "save"}

\* C30: _upload_in_progress is true whenever some producer is between the
\* start of writing its raw file and its append to the queue, and no callback
\* takes a batch off the queue while a producer is there.
C30_FlagCoversEveryProducer ==
    /\ [](MidWrite # {} => upload_in_progress)
    /\ [][batch_runs' > batch_runs => MidWrite = {}]_vars

\* The Timers that have been started, not cancelled and have not fired yet.
Armed == {t \in Timers : timers[t].state = "armed"}

\* C31: at most one debounce Timer is armed at any time, and a Timer that
\* fires is the one _processing_timer refers to.
C31_OneArmedTimer ==
    /\ [](Cardinality(Armed) <= 1)
    /\ [][\A t \in Timers :
             (timers[t].state = "armed" /\ timers'[t].state = "fired") => processing_timer = t]_vars

\* C32: a batch is the prefix of the queue at the moment it is taken, in the
\* order of the appends; it does not change while its run lasts, and every
\* job that waits in the queue during the run was appended after every job
\* of the batch.
C32_BatchesInAppendOrder ==
    /\ [](\A t \in Timers :
             cb[t].pc = "run" =>
                /\ \A i, j \in 1..Len(cb[t].batch) :
                      i < j => cb[t].batch[i].original_path < cb[t].batch[j].original_path
                /\ \A i \in 1..Len(cb[t].batch), k \in 1..Len(upload_queue) :
                      cb[t].batch[i].original_path < upload_queue[k].original_path)
    /\ [][\A t \in Timers :
             /\ (cb[t].pc = "take" /\ cb'[t].pc = "run")
                   => upload_queue = cb'[t].batch \o upload_queue'
             /\ (cb[t].pc = "run" /\ cb'[t].pc = "run") => cb'[t].batch = cb[t].batch]_vars

\* A job was appended after the only batch so far had been taken: it waits
\* in the queue while the run of that batch, of two jobs or more, lasts.
C32_Witness ==
    /\ batch_runs = 1
    /\ late_submit
    /\ upload_queue # <<>>
    /\ \E t \in Timers : cb[t].pc = "run" /\ Len(cb[t].batch) >= 2

\* C35: no callback thread waits at line 80 for _upload_in_progress_lock
\* while the same thread holds it from line 196.
C35_NoSelfDeadlock ==
    \A t \in Timers : ~(cb[t].pc = "blocked" /\ in_progress_lock = t)

\* ------------------------------------------------------------- claims: Spec
CursorOps == {"get_current_image", "next_image", "previous_image"}
Indexed(h, p) == IsList(playlists[p]) /\ h \in HashesOf(playlists[p].entries)

\* C4: byte-identical content ingested any number of times, in one batch or
\* in several, leaves one artifact and one entry per index, and is encoded
\* once: right after a batch run every decodable hash of the batch has its
\* artifact, exactly one entry in each of the three indices and one encode
\* run behind it, and no artifact ever has more than one encode run.
C4_Dedup ==
    /\ \A h \in Hashes : encoded[h] <= 1 /\ (Exists(proxy, h) <=> encoded[h] = 1)
    /\ ret.op = "process_upload_queue" =>
          \A i \in 1..Len(ret.list) :
             ~Corrupt(ret.list[i]) =>
                /\ Exists(proxy, ret.list[i])
                /\ \A p \in Policies :
                      /\ IsList(playlists[p])
                      /\ Count(ret.list[i], playlists[p].entries) = 1

\* C4 witness: a batch holding the same content twice has run while that
\* content's artifact was already there from an earlier batch.
C4_Witness ==
    /\ ret.op = "process_upload_queue"
    /\ ret.list = <<1, 1>>
    /\ Exists(proxy, 1)
    /\ proxy[1] < fs_time

\* C5: every identity with an artifact has an entry in every index file
\* (that is there and loads).
C5_EveryArtifactIndexed ==
    \A h \in Hashes : \A p \in Policies :
        (Exists(proxy, h) /\ IsList(playlists[p])) => h \in HashesOf(playlists[p].entries)

\* C6: a job whose materialization failed leaves no entry for its identity
\* in any index and no metadata record.
C6_FailedJobLeavesNoTrace ==
    ret.op = "process_upload_queue" =>
        \A i \in 1..Len(ret.list) :
            ~Exists(proxy, ret.list[i]) =>
                /\ ~metadata[ret.list[i]].present
                /\ \A p \in Policies : ~Indexed(ret.list[i], p)

\* C33: right after rebuild_playlist the index file of the policy is a list
\* of exactly the hashes that have an artifact, each once, every sort key is
\* the one computed from the current store, and for transfer_time and
\* creation_time the keys descend.
C33_RebuildExact ==
    ret.op = "rebuild_playlist" =>
        /\ IsList(playlists[ret.policy])
        /\ HashesOf(playlists[ret.policy].entries) = Artifacts(proxy)
        /\ Len(playlists[ret.policy].entries) = Cardinality(Artifacts(proxy))
        /\ \A i \in 1..Len(playlists[ret.policy].entries) :
              playlists[ret.policy].entries[i].sort_key =
                 get_sort_key(playlists[ret.policy].entries[i].hash, ret.policy, proxy, metadata)
        /\ ret.policy # "random" =>
              \A i, j \in 1..Len(playlists[ret.policy].entries) :
                 i < j => playlists[ret.policy].entries[i].sort_key >=
                          playlists[ret.policy].entries[j].sort_key

\* A rebuild of a sorted policy found a list with an entry that had no
\* artifact and without an entry for an artifact, and wrote two entries or
\* more with different keys.
C33_Witness ==
    /\ ret.op = "rebuild_playlist"
    /\ ret.was = "list"
    /\ ret.policy # "random"
    /\ \E h \in Range(ret.list) : ~Exists(proxy, h)
    /\ \E h \in Artifacts(proxy) : h \notin Range(ret.list)
    /\ \E i, j \in 1..Len(playlists[ret.policy].entries) :
          playlists[ret.policy].entries[i].sort_key # playlists[ret.policy].entries[j].sort_key

\* The hashes of an index file in file order, and a sequence cut down to
\* the elements of S.
HashSeq(file) == [i \in 1..Len(file.entries) |-> file.entries[i].hash]

RECURSIVE Restrict(_, _)
Restrict(seq, S) ==
    IF seq = <<>> THEN <<>>
    ELSE (IF Head(seq) \in S THEN <<Head(seq)>> ELSE <<>>) \o Restrict(Tail(seq), S)

C9_LoadSelfHeals ==
    (ret.op = "get_playlist" /\ ret.was \in {"missing", "unreadable"}) =>
        /\ Range(ret.list) = Artifacts(proxy)
        /\ Len(ret.list) = Cardinality(Artifacts(proxy))
        /\ IsList(playlists[ret.policy])
        /\ ret.list = [i \in 1..Len(playlists[ret.policy].entries) |->
                          playlists[ret.policy].entries[i].hash]
        /\ ret.policy # "random" =>
              \A i, j \in 1..Len(ret.list) :
                 i < j => get_sort_key(ret.list[i], ret.policy, proxy, metadata)
                          >= get_sort_key(ret.list[j], ret.policy, proxy, metadata)

\* C9 witness: a load of the unloadable recency index returned two images.
C9_Witness ==
    /\ ret.op = "get_playlist"
    /\ ret.was = "unreadable"
    /\ ret.policy = "transfer_time"
    /\ Len(ret.list) = 2

\* C10: the recency index lists artifacts newest first: an entry whose
\* artifact was written later never follows one written earlier.
C10_RecencyOrdered ==
    IsList(playlists["transfer_time"]) =>
        LET list == playlists["transfer_time"].entries
        IN  \A i, j \in 1..Len(list) :
               (i < j /\ Exists(proxy, list[i].hash) /\ Exists(proxy, list[j].hash))
                  => proxy[list[i].hash] >= proxy[list[j].hash]

\* Remove as an algebraic law on the current store, for every identity.
RemoveAlgebra ==
    \A h \in Hashes :
        LET once == remove_image(h, playlists)
            md_once == remove_metadata(h, metadata)
        IN  /\ \A p \in Policies : ~Indexed(h, p) => once[p] = playlists[p]
            /\ ~metadata[h].present => md_once = metadata
            /\ remove_image(h, once) = once
            /\ remove_metadata(h, md_once) = md_once

\* C12: Removing an identity that is absent from an index list or from the
\* metadata table raises nothing and leaves that list, respectively the
\* table, as it was; after a Remove a second Remove of the same identity
\* changes nothing.  Checked for every identity in every reachable store and
\* on every delete_image step.
C12_RemoveIdempotent ==
    /\ []RemoveAlgebra
    /\ [][ret'.op = "delete_image" =>
            LET h == ret'.path
            IN  /\ \A p \in Policies : ~Indexed(h, p) => playlists'[p] = playlists[p]
                /\ \A g \in Hashes \ {h} : metadata'[g] = metadata[g]
                /\ remove_image(h, playlists') = playlists'
                /\ remove_metadata(h, metadata') = metadata']_vars

\* A delete_image has run while one index file did not load (its except
\* branch) and another index still lists images.
C12_Witness ==
    /\ ret.op = "delete_image"
    /\ \E p \in Policies : playlists[p] = Unreadable
    /\ \E p \in Policies : IsList(playlists[p]) /\ playlists[p].entries # <<>>


\* C25: whatever ingestions, deletes, loads and rebuilds of the configured
\* policy have run, the index files that exist and load list the same set of
\* images.  (Every action of Spec is a whole operation: every state is settled.)
C25_IndicesAgree ==
    \A p, q \in Policies :
        (IsList(playlists[p]) /\ IsList(playlists[q]))
            => HashesOf(playlists[p].entries) = HashesOf(playlists[q].entries)


\* C27: one batch run opens each index file for writing at most once,
\* however many jobs the batch has.  (metadata.json is written once, lines
\* 149-156; that half of the claim is how process_batch is built.)
C27_OneWritePerBatch ==
    [][ret'.op = "process_upload_queue" =>
          \A p \in Policies :
              playlist_writes(p, playlists[p], ret'.list, proxy', metadata') <= 1]_vars

\* ------------------------------------------------------------- claims: SpecC
\* C7: a path returned by get_current_image, next_image or previous_image
\* exists and is the entry at the cursor; when the call had to refresh
\* because its target was gone, it returns absent only if no entry of the
\* index has an artifact left.
C7_CursorSafety ==
    ret.op \in CursorOps =>
        /\ ret.path # None =>
              /\ Exists(proxy, ret.path)
              /\ images # <<>>
              /\ ret.path = images[current_index + 1]
        /\ ret.refreshed =>
              (ret.path = None <=>
                  \A h \in Hashes : ~(Indexed(h, sort_by) /\ Exists(proxy, h)))

\* C7 witness: next_image found its target deleted, refreshed and returned
\* a remaining image.
C7_Witness ==
    /\ ret.op = "next_image"
    /\ ret.refreshed
    /\ ret.path # None

\* C8: current_index is 0 on an empty snapshot and within [0, len(images))
\* otherwise.
C8_IndexInRange ==
    IF images = <<>> THEN current_index = 0
    ELSE 0 <= current_index /\ current_index < Len(images)

\* C8 witness: refresh has run after two artifacts had been written and
\* all but one were deleted again: the snapshot it loaded has one entry and
\* the cursor stands on it.
C8_Witness ==
    /\ ret.op = "refresh"
    /\ Len(images) = 1
    /\ current_index = 0
    /\ fs_time >= 2
    /\ Cardinality(Artifacts(proxy)) = 1

\* C23: on a snapshot of N >= 1 entries, when the entry it moves to still has
\* its artifact, next_image goes from N-1 to 0 with loop and stays without,
\* previous_image goes from 0 to N-1 with loop and stays without, any other
\* move is by one, and the path returned is the entry at the new position.
C23_WrapOrClamp ==
    [][(ret'.op \in {"next_image", "previous_image"} /\ images # <<>> /\ ~ret'.refreshed) =>
          LET N == Len(images)
          IN  /\ images' = images
              /\ ret'.op = "next_image" =>
                    current_index' = IF current_index = N - 1
                                     THEN (IF loop THEN 0 ELSE N - 1)
                                     ELSE current_index + 1
              /\ ret'.op = "previous_image" =>
                    current_index' = IF current_index = 0
                                     THEN (IF loop THEN N - 1 ELSE 0)
                                     ELSE current_index - 1
              /\ ret'.path = images[current_index' + 1]]_vars

\* next_image has wrapped from the last of two entries to the first.
C23_Witness ==
    /\ ret.op = "next_image"
    /\ ~ret.refreshed
    /\ loop
    /\ Len(images) = 2
    /\ current_index = 0
    /\ ret.path = images[1]

\* ------------------------------------------------------------- claims: SpecL
\* C24: after a batch run, the record of every decodable image of the batch
\* carries the uploader name of the last job of the batch with that hash,
\* whatever record the image had before and whatever earlier jobs said.
C24_LastWriterWins ==
    ret.op = "process_upload_queue" =>
        \A i \in 1..Len(ret.list) :
            (~Corrupt(ret.list[i]) /\ \A j \in (i + 1)..Len(ret.list) : ret.list[j] # ret.list[i])
            => /\ metadata[ret.list[i]].present
               /\ metadata[ret.list[i]].sender = ret.labels[i]

\* One batch held the same image twice, from "a" and then from "b".
C24_Witness ==
    /\ ret.op = "process_upload_queue"
    /\ ret.list = <<1, 1>>
    /\ ret.labels = <<"a", "b">>
    /\ metadata[1].sender = "b"

\* ------------------------------------------------------------- claims: SpecF, check_emails
\* C39: after check_emails every decodable attachment it had downloaded has
\* its artifact, its metadata record and an entry in each index, whatever
\* became of the other attachments of the same check.
C39_EmailFailureIsolated ==
    ret.op = "check_emails" =>
        \A i \in 1..Len(ret.list) :
            ~Corrupt(ret.list[i]) =>
                /\ Exists(proxy, ret.list[i])
                /\ metadata[ret.list[i]].present
                /\ \A p \in Policies : Indexed(ret.list[i], p)

\* ------------------------------------------------------------- claims: SpecM
\* C37: a batch run leaves the metadata record of every hash outside its
\* batch as it was, also when metadata.json could not be loaded at the start
\* of the run.
C37_OtherRecordsKept ==
    [][ret'.op = "process_upload_queue" =>
          \A h \in Hashes \ Range(ret'.list) : metadata'[h] = metadata[h]]_vars

\* ------------------------------------------------------------- claims: SpecD
\* C38: get_playlist returns a list to its caller and raises nothing, also
\* when the index file is missing or does not load and the rebuilt index
\* cannot be written.
C38_LoadAlwaysReturns ==
    ret.op = "get_playlist" => ~ret.raised

\* ------------------------------------------------------------- claims: SpecS
\* C36: whenever a thread is about to evaluate self.images[self.current_index]
\* in get_current_image, the index is within the list.
C36_SubscriptInRange ==
    \A th \in SlideThreads : slide[th].pc = "subscript" => current_index < Len(images)

\* ------------------------------------------------------------- claims: SpecI
\* C28: whatever way add_image, remove_image and rebuild_playlist calls
\* overlap, no index file lists a hash twice, and the write step of an insert
\* whose hash is in the list it has read leaves every index file as it is.
C28_NoDuplicates ==
    /\ [](\A p \in Policies : IsList(playlists[p]) =>
             \A h \in Hashes : Count(h, playlists[p].entries) <= 1)
    /\ [][(/\ pm["insert"].pc = "write"
           /\ pm'["insert"].todo # pm["insert"].todo
           /\ pm["insert"].hash \in HashesOf(LoadOrEmpty(pm["insert"].file)))
          => playlists' = playlists]_vars

\* An add_image call for a listed hash has returned without a write, after a
\* remove_image call had begun; every index lists the hash once.
C28_Witness ==
    /\ ret.op = "add_image"
    /\ ret.was = "unchanged"
    /\ pm["remove"].calls >= 1
    /\ \A p \in Policies : IsList(playlists[p]) /\ Count(ret.path, playlists[p].entries) = 1

\* C29: when an add_image call for Y and a remove_image call for X # Y have
\* both returned and no rebuild is under way, with the artifact of Y in place
\* and that of X gone, every index file lists Y and does not list X.
C29_NoLostUpdate ==
    (/\ \A c \in Callers : pm[c].pc = "idle"
     /\ pm["insert"].hash # None
     /\ pm["remove"].hash # None
     /\ pm["insert"].hash # pm["remove"].hash
     /\ Exists(proxy, pm["insert"].hash)
     /\ ~Exists(proxy, pm["remove"].hash))
    => \A p \in Policies :
          IsList(playlists[p]) =>
             /\ pm["insert"].hash \in HashesOf(playlists[p].entries)
             /\ pm["remove"].hash \notin HashesOf(playlists[p].entries)

====
